---------------------------- MODULE Spec2Model ----------------------------
(***************************************************************************)
(* Lab-Groupings: the group assignment and persistence engine of the two   *)
(* Streamlit programs of the repository, src/main.py ("main") and          *)
(* src/main1.py ("main1").                                                 *)
(*                                                                         *)
(* Strings are sequences of one-character strings, so that strip, upper,   *)
(* lower, split and the regular expressions are computed, not assumed.     *)
(* The alphabet holds no line break: st.text_input is a one-line field.    *)
(***************************************************************************)
EXTENDS Integers, Sequences, FiniteSets, TLC

VARIABLES
    impl,       \* which program runs: "main" (main.py) or "main1" (main1.py)
    clock,      \* datetime.now(), in seconds
    disk,       \* the JSON documents of DATA_DIR
    backups,    \* BACKUP_DIR: label -> archive
    last,       \* the request just handled and its outcome
    steps,      \* number of requests handled so far
    shuffles,   \* number of requests so far that drew a shuffle
    pStudents,  \* partition harness: the list handed to the grouping functions
    pGroups,    \* partition harness: what they returned
    io,         \* one document file, the write in progress on it, its reader
    sess        \* the requests being handled at the same time, each by its
                \* own script run

vars == <<impl, clock, disk, backups, last, steps, shuffles, pStudents, pGroups,
          io, sess>>

appVars  == <<impl, clock, disk, backups, last, steps, shuffles>>
partVars == <<pStudents, pGroups>>

(***************************************************************************)
(* Bounds of the model.                                                    *)
(***************************************************************************)
MaxN     == 7   \* largest list handed to the partition harness
MaxClock == 0   \* the clock runs over 0..MaxClock
MaxSteps == 2   \* requests handled in one behaviour
MaxShuffles == 1   \* a behaviour ends once so many requests drew a shuffle
MaxItems  == 2  \* longest document written to the one file
MaxWrites == 2  \* writes begun on the one file

(***************************************************************************)
(* Characters and strings.                                                 *)
(***************************************************************************)
LowerChars == <<"a","b","c","d","e","f","g","h","i","j","k","l","m",
                "n","o","p","q","r","s","t","u","v","w","x","y","z">>
UpperChars == <<"A","B","C","D","E","F","G","H","I","J","K","L","M",
                "N","O","P","Q","R","S","T","U","V","W","X","Y","Z">>
DigitChars == <<"0","1","2","3","4","5","6","7","8","9">>

Range(s) == {s[i] : i \in DOMAIN s}

LowerSet == Range(LowerChars)
UpperSet == Range(UpperChars)
DigitSet == Range(DigitChars)

IsLower(c) == c \in LowerSet
IsUpper(c) == c \in UpperSet
IsAlpha(c) == IsLower(c) \/ IsUpper(c)
IsDigit(c) == c \in DigitSet
IsSpace(c) == c \in {" ", "\t"}

PosIn(c, s) == CHOOSE i \in DOMAIN s : s[i] = c

\* the capital of every small letter, the small letter of every capital
ToUpper == [c \in LowerSet |-> UpperChars[PosIn(c, LowerChars)]]
ToLower == [c \in UpperSet |-> LowerChars[PosIn(c, UpperChars)]]

UpperChar(c) == IF IsLower(c) THEN ToUpper[c] ELSE c
LowerChar(c) == IF IsUpper(c) THEN ToLower[c] ELSE c

\* str.upper(), str.lower()
Upper(s) == [i \in DOMAIN s |-> UpperChar(s[i])]
Lower(s) == [i \in DOMAIN s |-> LowerChar(s[i])]

RECURSIVE LStrip(_)
LStrip(s) == IF s # <<>> /\ IsSpace(Head(s)) THEN LStrip(Tail(s)) ELSE s

RECURSIVE RStrip(_)
RStrip(s) ==
    IF s # <<>> /\ IsSpace(s[Len(s)]) THEN RStrip(SubSeq(s, 1, Len(s) - 1)) ELSE s

\* str.strip()
Strip(s) == RStrip(LStrip(s))

\* " ".join(s.split()): the words of s, one space between two words
RECURSIVE Collapse(_, _, _)
Collapse(s, acc, gap) ==
    IF s = <<>> THEN acc
    ELSE IF IsSpace(Head(s)) THEN Collapse(Tail(s), acc, TRUE)
    ELSE Collapse(Tail(s),
                  (IF gap /\ acc # <<>> THEN Append(acc, " ") ELSE acc)
                      \o <<Head(s)>>,
                  FALSE)

JoinSplit(s) == Collapse(s, <<>>, FALSE)

\* {**a, **b}: the keys of both, b's values winning
Merge(a, b) ==
    [k \in DOMAIN a \cup DOMAIN b |-> IF k \in DOMAIN b THEN b[k] ELSE a[k]]

(***************************************************************************)
(* Time: strftime keeps the clock to the second, the minute or the day.    *)
(***************************************************************************)
SecondOf(t) == t
MinuteOf(t) == t \div 60
DayOf(t)    == t \div 86400

(***************************************************************************)
(* Validation.                                                             *)
(***************************************************************************)
PREFIX == <<"S","T","U","B","T","E","C","H">>

\* re.match(r"^STUBTECH\d{6}$", s)
MatchesIndex(s) ==
    /\ Len(s) = Len(PREFIX) + 6
    /\ SubSeq(s, 1, Len(PREFIX)) = PREFIX
    /\ \A i \in (Len(PREFIX) + 1)..Len(s) : IsDigit(s[i])

\* re.match(r"^[A-Za-z][A-Za-z .'\-]{1,}$", s)
MatchesName(s) ==
    /\ Len(s) >= 2
    /\ IsAlpha(s[1])
    /\ \A i \in 2..Len(s) : IsAlpha(s[i]) \/ s[i] \in {" ", ".", "'", "-"}

\* main.py validate_index: (ok, cleaned)
validate_index(raw) ==
    LET cleaned == Upper(Strip(raw))
    IN  [ok |-> MatchesIndex(cleaned), value |-> cleaned]

\* main.py validate_name: (ok, cleaned)
validate_name(raw) ==
    LET cleaned == JoinSplit(Strip(raw))
    IN  [ok |-> Len(cleaned) >= 2 /\ MatchesName(cleaned), value |-> cleaned]

\* main1.py validate_index: the pattern on index.upper(), nothing stripped
validate_index1(index) == MatchesIndex(Upper(index))

\* main1.py validate_name
validate_name1(name) ==
    /\ Len(Strip(name)) >= 2
    /\ \A i \in DOMAIN name : IsAlpha(name[i]) \/ IsSpace(name[i])

(***************************************************************************)
(* Grouping engine.                                                        *)
(***************************************************************************)
MIN_STUDENTS  == 3   \* main.py
MIN_STUDENTS1 == 6   \* main1.py: the literal of assign_groups

MECH_LAB  == "Mechatronics Lab"
RENEW_LAB == "Renewable Energy Systems Lab"

GA == "Group A"
GB == "Group B"
GC == "Group C"

\* init_storage / init_data_files: the two empty group documents
EmptyMech  == (GA :> <<>>) @@ (GB :> <<>>)
EmptyRenew == (GA :> <<>>) @@ (GB :> <<>>) @@ (GC :> <<>>)

\* random.sample(students, len(students)) under the permutation perm
Sample(students, perm) == [i \in DOMAIN students |-> students[perm[i]]]

\* every outcome random.sample can have on a list of n elements
Perms(n) == Permutations(1..n)

\* main.py entry(s, letter)
entry(s, group, lab) ==
    Merge(s, [group |-> group, lab |-> lab, marks |-> ""])

Entries(pool, from, to, group, lab) ==
    [i \in 1..(to - from + 1) |-> entry(pool[from + i - 1], group, lab)]

\* _build_mech_groups with Group B sliced from one place too early
_build_mech_groups_overlap(students, perm) ==
    LET pool == Sample(students, perm)
        half == Len(pool) \div 2
        rem  == Len(pool) % 2
    IN  (GA :> Entries(pool, 1, half + rem, GA, MECH_LAB)) @@
        (GB :> Entries(pool, half + rem, Len(pool), GB, MECH_LAB))

\* main.py _build_mech_groups, the shuffle being perm
_build_mech_groups(students, perm) ==
    LET pool == Sample(students, perm)
        half == Len(pool) \div 2
        rem  == Len(pool) % 2
    IN  (GA :> Entries(pool, 1, half + rem, GA, MECH_LAB)) @@
        (GB :> Entries(pool, half + rem + 1, Len(pool), GB, MECH_LAB))

\* the sizes with the whole remainder given to the first group
RenewSizes_front(n) ==
    [i \in 0..2 |-> (n \div 3) + (IF i = 0 THEN n % 3 ELSE 0)]

\* the sizes with the remainder given to the last groups
RenewSizes_back(n) ==
    [i \in 0..2 |-> (n \div 3) + (IF i >= 3 - (n % 3) THEN 1 ELSE 0)]

\* main.py _build_renew_groups: sizes[i], i = 0, 1, 2
RenewSizes(n) ==
    [i \in 0..2 |-> (n \div 3) + (IF i < n % 3 THEN 1 ELSE 0)]

\* main.py _build_renew_groups, the shuffle being perm
_build_renew_groups(students, perm) ==
    LET pool  == Sample(students, perm)
        sizes == RenewSizes(Len(pool))
    IN  (GA :> Entries(pool, 1, sizes[0], GA, RENEW_LAB)) @@
        (GB :> Entries(pool, sizes[0] + 1, sizes[0] + sizes[1], GB, RENEW_LAB)) @@
        (GC :> Entries(pool, sizes[0] + sizes[1] + 1,
                       sizes[0] + sizes[1] + sizes[2], GC, RENEW_LAB))

\* main1.py assign_groups: the members of shuffled at positions i (from 0)
\* with i % k = r, each with an empty marks field
EveryKth(shuffled, k, r) ==
    LET n == Len(shuffled)
        m == IF n > r THEN (n - r + k - 1) \div k ELSE 0
    IN  [j \in 1..m |-> Merge(shuffled[(j - 1) * k + r + 1], [marks |-> ""])]

\* main1.py assign_groups, lines 129-152: both documents from one shuffle
AssignDocs(students, perm) ==
    LET shuffled == Sample(students, perm)
    IN  [mech  |-> (GA :> EveryKth(shuffled, 2, 0)) @@
                   (GB :> EveryKth(shuffled, 2, 1)),
         renew |-> (GA :> EveryKth(shuffled, 3, 0)) @@
                   (GB :> EveryKth(shuffled, 3, 1)) @@
                   (GC :> EveryKth(shuffled, 3, 2))]

(***************************************************************************)
(* Student records.                                                        *)
(***************************************************************************)
\* the index number STUBTECH followed by the six digits of i
IndexOf(i) ==
    PREFIX \o [k \in 1..6 |->
                 DigitChars[((i \div (10 ^ (6 - k))) % 10) + 1]]

NameOf(i) ==
    <<  <<"A","n","n">>, <<"B","o","b">>, <<"C","y">>, <<"D","i">>,
        <<"E","d">>, <<"F","l","o">>, <<"G","u","s">>, <<"H","a","l">>  >>[i]

\* main.py lines 775-779: the record of a registration at time t
StudentRecord(name, index, t) ==
    [name |-> name, index |-> index, registered_at |-> SecondOf(t)]

\* main1.py lines 216-220
StudentRecord1(name, index, t) ==
    [name |-> Strip(name), index |-> Upper(index), date |-> DayOf(t)]

\* the list the first n students leave when they register in turn at time 0
Roster(n, im) ==
    [i \in 1..n |-> IF im = "main"
                    THEN StudentRecord(NameOf(i), IndexOf(i), 0)
                    ELSE StudentRecord1(NameOf(i), IndexOf(i), 0)]

(***************************************************************************)
(* The documents of DATA_DIR and the archives of BACKUP_DIR.  A file name  *)
(* is <<stem, extension>>, so that endswith(".json") reads the name.       *)
(***************************************************************************)
STUDENTS_FILE           == <<"students", "json">>
MECH_FILE               == <<"mech_groups", "json">>
RENEW_FILE              == <<"renew_groups", "json">>
STATE_FILE              == <<"app_state", "json">>
LOG_FILE                == <<"activity_log", "json">>
MECHTRONICS_GROUPS_FILE == <<"mechtronics_groups", "json">>
RENEWABLE_GROUPS_FILE   == <<"renewable_groups", "json">>
APP_STATE_FILE          == <<"app_state", "json">>

\* fname.endswith(".json")
EndsWithJson(fname) == fname[2] = "json"

None    == <<>>
NoGroups == [call |-> "none"]
Some(x) == <<x>>

\* init_storage: the documents of a fresh DATA_DIR
Defaults ==
    (STUDENTS_FILE :> <<>>) @@
    (MECH_FILE     :> EmptyMech) @@
    (RENEW_FILE    :> EmptyRenew) @@
    (STATE_FILE    :> [last_backup |-> None, last_grouping |-> None,
                       version |-> "1.0"]) @@
    (LOG_FILE      :> <<>>)

\* main1.py init_data_files
Defaults1 ==
    (STUDENTS_FILE           :> <<>>) @@
    (MECHTRONICS_GROUPS_FILE :> EmptyMech) @@
    (RENEWABLE_GROUPS_FILE   :> EmptyRenew) @@
    (APP_STATE_FILE          :> [last_backup |-> None, total_students |-> 0])

\* a document whose JSON text is a list where the program expects an
\* object is written [json_list |-> the list]; state["key"] = value raises
\* a TypeError on it
IsList(doc) == "json_list" \in DOMAIN doc

\* _write / save_data completed: the document replaced
Put(d, path, data) == (path :> data) @@ d

\* "_read(path) or default" / "load_data(path) or default"
ReadOr(d, path, default) == IF path \in DOMAIN d THEN d[path] ELSE default

\* logs[:n]
FirstN(s, n) == IF Len(s) > n THEN SubSeq(s, 1, n) ELSE s

\* logs[-n:]
LastN(s, n) == IF Len(s) > n THEN SubSeq(s, Len(s) - n + 1, Len(s)) ELSE s

LOG_CAP == 2000

\* main.py log_event; logged tells whether the log could be read, extended
\* and written: when it could not, the exception is swallowed (lines 321-322)
log_event(d, event, detail, t, logged) ==
    LET logs == Append(ReadOr(d, LOG_FILE, <<>>),
                       [event |-> event, detail |-> detail,
                        timestamp |-> SecondOf(t)])
    IN  IF logged THEN Put(d, LOG_FILE, LastN(logs, LOG_CAP)) ELSE d

(***************************************************************************)
(* main.py: duplicate check, grouping run.                                 *)
(***************************************************************************)
\* check_duplicate without the test of the index
check_duplicate_name_only(d, index, name) ==
    LET students == ReadOr(d, STUDENTS_FILE, <<>>)
        name_set == {Lower(students[i].name) : i \in DOMAIN students}
    IN  IF Lower(name) \in name_set THEN "name" ELSE ""

\* main.py check_duplicate: "" when there is none, else the field
check_duplicate(d, index, name) ==
    LET students == ReadOr(d, STUDENTS_FILE, <<>>)
        idx_set  == {students[i].index : i \in DOMAIN students}
        name_set == {Lower(students[i].name) : i \in DOMAIN students}
    IN  IF index \in idx_set THEN "index"
        ELSE IF Lower(name) \in name_set THEN "name"
        ELSE ""

\* line 783, line 1290: does the handler call run_grouping
NeedsGrouping(n) == n >= MIN_STUDENTS

\* the document whose _write in run_grouping raises, if one does
Faults == {"none", "mech", "renew"}

\* run_grouping that writes the group set of the first lab only
run_grouping_mech_only(d, pm, pr, t, fault, logged) ==
    LET students == ReadOr(d, STUDENTS_FILE, <<>>)
        d1 == Put(d, MECH_FILE, _build_mech_groups(students, pm))
        state == Merge(ReadOr(d1, STATE_FILE, <<>>),
                       [last_grouping |-> Some(MinuteOf(t))])
        d3 == Put(d1, STATE_FILE, state)
    IN  IF Len(students) < MIN_STUDENTS
        THEN [disk |-> d, ok |-> FALSE, raised |-> FALSE]
        ELSE IF fault = "mech"  THEN [disk |-> d,  ok |-> FALSE, raised |-> TRUE]
        ELSE IF fault = "renew" THEN [disk |-> d1, ok |-> FALSE, raised |-> TRUE]
        ELSE [disk |-> log_event(d3, "groups_generated",
                                 [total |-> Len(students)], t, logged),
              ok |-> TRUE, raised |-> FALSE]

\* run_grouping with a log_event whose exception is not caught
run_grouping_log_raises(d, pm, pr, t, fault, logged) ==
    LET students == ReadOr(d, STUDENTS_FILE, <<>>)
        d1 == Put(d, MECH_FILE, _build_mech_groups(students, pm))
        d2 == Put(d1, RENEW_FILE, _build_renew_groups(students, pr))
        state == Merge(ReadOr(d2, STATE_FILE, <<>>),
                       [last_grouping |-> Some(MinuteOf(t))])
        d3 == Put(d2, STATE_FILE, state)
    IN  IF Len(students) < MIN_STUDENTS
        THEN [disk |-> d, ok |-> FALSE, raised |-> FALSE]
        ELSE IF fault = "mech"  THEN [disk |-> d,  ok |-> FALSE, raised |-> TRUE]
        ELSE IF fault = "renew" THEN [disk |-> d1, ok |-> FALSE, raised |-> TRUE]
        ELSE IF ~logged THEN [disk |-> d3, ok |-> FALSE, raised |-> TRUE]
        ELSE [disk |-> log_event(d3, "groups_generated",
                                 [total |-> Len(students)], t, logged),
              ok |-> TRUE, raised |-> FALSE]

\* main.py run_grouping, the two shuffles being pm and pr; fault names the
\* document whose _write raises.  ok is the returned flag, raised tells
\* that the exception left the function.
run_grouping(d, pm, pr, t, fault, logged) ==
    LET students == ReadOr(d, STUDENTS_FILE, <<>>)
        d1 == Put(d, MECH_FILE, _build_mech_groups(students, pm))
        d2 == Put(d1, RENEW_FILE, _build_renew_groups(students, pr))
        state == Merge(ReadOr(d2, STATE_FILE, <<>>),
                       [last_grouping |-> Some(MinuteOf(t))])
        d3 == Put(d2, STATE_FILE, state)
    IN  IF Len(students) < MIN_STUDENTS
        THEN [disk |-> d, ok |-> FALSE, raised |-> FALSE]
        ELSE IF fault = "mech"  THEN [disk |-> d,  ok |-> FALSE, raised |-> TRUE]
        ELSE IF fault = "renew" THEN [disk |-> d1, ok |-> FALSE, raised |-> TRUE]
        ELSE IF IsList(ReadOr(d2, STATE_FILE, <<>>))
        THEN [disk |-> d2, ok |-> FALSE, raised |-> TRUE]
        ELSE [disk |-> log_event(d3, "groups_generated",
                                 [total |-> Len(students)], t, logged),
              ok |-> TRUE, raised |-> FALSE]

\* main.py student_page, lines 756-772: the checks of a submitted form
form_checks(d, name_input, index_input) ==
    LET vn  == validate_name(name_input)
        vi  == validate_index(index_input)
    IN  [result |-> IF ~vn.ok \/ ~vi.ok THEN "invalid"
                    ELSE IF check_duplicate(d, vi.value, vn.value) # ""
                         THEN "duplicate"
                    ELSE "ok",
         name  |-> vn.value,
         index |-> vi.value]

\* main.py student_page, lines 755-789, c being the outcome of the checks
student_page(d, c, pm, pr, t, fault, logged) ==
    LET students == Append(ReadOr(d, STUDENTS_FILE, <<>>),
                           StudentRecord(c.name, c.index, t))
        d1  == Put(d, STUDENTS_FILE, students)
        rg  == run_grouping(d1, pm, pr, t, fault, logged)
        d2  == IF NeedsGrouping(Len(students)) THEN rg.disk ELSE d1
    IN  IF c.result # "ok"
        THEN [disk |-> d, result |-> c.result, grouped |-> FALSE]
        ELSE IF NeedsGrouping(Len(students)) /\ rg.raised
        THEN [disk |-> d2, result |-> "raised", grouped |-> FALSE]
        ELSE [disk |-> log_event(d2, "student_registered",
                                 [index |-> c.index, total |-> Len(students)],
                                 t, logged),
              result |-> "ok",
              grouped |-> NeedsGrouping(Len(students)) /\ rg.ok]

\* a removal that takes the first element whatever i is
PopFirst(s, i) == Tail(s)

\* list.pop(i), i from 1
Pop(s, i) == SubSeq(s, 1, i - 1) \o SubSeq(s, i + 1, Len(s))

\* main.py admin_page, lines 1286-1294: the student at position i removed
remove_student(d, i, pm, pr, t, fault, logged) ==
    LET before   == ReadOr(d, STUDENTS_FILE, <<>>)
        students == Pop(before, i)
        d1  == Put(d, STUDENTS_FILE, students)
        rg  == run_grouping(d1, pm, pr, t, fault, logged)
        d2  == IF NeedsGrouping(Len(students)) THEN rg.disk ELSE d1
    IN  IF NeedsGrouping(Len(students)) /\ rg.raised
        THEN [disk |-> d2, result |-> "raised", grouped |-> FALSE]
        ELSE [disk |-> log_event(d2, "student_removed",
                                 [index |-> before[i].index], t, logged),
              result |-> "ok",
              grouped |-> NeedsGrouping(Len(students)) /\ rg.ok]

(***************************************************************************)
(* main.py: backup and restore.  An archive holds the files zipped into it *)
(* and, as a history field, the whole DATA_DIR at the moment create_backup *)
(* was called (None for an archive made elsewhere).                        *)
(***************************************************************************)
\* the archive without the application state
ArchiveFiles_no_state(d) ==
    [f \in {g \in DOMAIN d : EndsWithJson(g) /\ g # STATE_FILE} |-> d[f]]

\* create_backup, lines 417-420: every *.json of DATA_DIR, under its name
ArchiveFiles(d) == [f \in {g \in DOMAIN d : EndsWithJson(g)} |-> d[f]]

\* main.py create_backup; raised tells that line 429 raised, the archive
\* being written by then
create_backup(d, bk, t, logged) ==
    LET label   == SecondOf(t)
        raw     == [files |-> ArchiveFiles(d), taken |-> Some(d)]
        state   == Merge(ReadOr(d, STATE_FILE, <<>>),
                         [last_backup |-> Some(MinuteOf(t))])
        d1      == Put(d, STATE_FILE, state)
    IN  IF IsList(ReadOr(d, STATE_FILE, <<>>))
        THEN [disk |-> d, backups |-> Put(bk, label, raw), label |-> label,
              raw |-> raw, raised |-> TRUE]
        ELSE [disk    |-> log_event(d1, "backup_created", [label |-> label], t,
                                    logged),
              backups |-> Put(bk, label, raw),
              label   |-> label,
              raw     |-> raw,
              raised  |-> FALSE]

\* restore_backup, lines 459-463: every *.json entry written over its file
RestoreFiles(d, files) ==
    LET names == {f \in DOMAIN files : EndsWithJson(f)}
    IN  [f \in DOMAIN d \cup names |-> IF f \in names THEN files[f] ELSE d[f]]

\* main.py restore_backup; count is the number in the message returned,
\* written the files the loop of lines 459-463 wrote
restore_backup(d, zip, t, logged) ==
    LET names == DOMAIN zip.files
        d1    == RestoreFiles(d, zip.files)
    IN  IF ~(\E n \in names : EndsWithJson(n))
        THEN [disk |-> d, ok |-> FALSE, count |-> 0, written |-> {}]
        ELSE [disk |-> log_event(d1, "backup_restored", [files |-> names], t,
                                 logged),
              ok |-> TRUE,
              count |-> Cardinality(names),
              written |-> {n \in names : EndsWithJson(n)}]

\* a clearing that takes its backup once the documents are cleared
clear_all_backup_last(d, bk, t, logged) ==
    LET d1 == Put(d, STUDENTS_FILE, <<>>)
        d2 == Put(d1, MECH_FILE, EmptyMech)
        d3 == Put(d2, RENEW_FILE, EmptyRenew)
        cb == create_backup(log_event(d3, "data_cleared", <<>>, t, logged),
                            bk, t, logged)
    IN  [disk |-> cb.disk, backups |-> cb.backups]

\* main.py admin_page, lines 1157-1165: Delete All Students & Groups
clear_all(d, bk, t, logged) ==
    LET cb == create_backup(d, bk, t, logged)
        d1 == Put(cb.disk, STUDENTS_FILE, <<>>)
        d2 == Put(d1, MECH_FILE, EmptyMech)
        d3 == Put(d2, RENEW_FILE, EmptyRenew)
    IN  IF cb.raised THEN [disk |-> cb.disk, backups |-> cb.backups]
        ELSE [disk |-> log_event(d3, "data_cleared", <<>>, t, logged),
              backups |-> cb.backups]

\* main.py admin_page, lines 1180-1188: Restore Now, zip being the upload
restore_upload(d, bk, zip, t, logged) ==
    LET cb == create_backup(d, bk, t, logged)
        rb == restore_backup(cb.disk, zip, t, logged)
    IN  IF cb.raised
        THEN [disk |-> cb.disk, backups |-> cb.backups, ok |-> FALSE, zip |-> zip,
              count |-> 0, written |-> {}]
        ELSE [disk |-> rb.disk, backups |-> cb.backups, ok |-> rb.ok, zip |-> zip,
              count |-> rb.count, written |-> rb.written]

\* main.py admin_page, lines 1201-1209: Restore Selected; the file of the
\* selected name is opened after the automatic backup was written
restore_server(d, bk, sel, t, logged) ==
    LET cb  == create_backup(d, bk, t, logged)
        zip == cb.backups[sel]
        rb  == restore_backup(cb.disk, zip, t, logged)
    IN  IF cb.raised
        THEN [disk |-> cb.disk, backups |-> cb.backups, ok |-> FALSE, zip |-> zip,
              count |-> 0, written |-> {}]
        ELSE [disk |-> rb.disk, backups |-> cb.backups, ok |-> rb.ok, zip |-> zip,
              count |-> rb.count, written |-> rb.written]

(***************************************************************************)
(* main1.py.                                                               *)
(***************************************************************************)
\* main1.py is_duplicate
is_duplicate(d, index) ==
    LET students == ReadOr(d, STUDENTS_FILE, <<>>)
    IN  \E i \in DOMAIN students : students[i].index = Upper(index)

\* main1.py assign_groups
assign_groups(d, students, perm) ==
    IF Len(students) < MIN_STUDENTS1
    THEN [disk |-> d, ok |-> FALSE]
    ELSE LET g == AssignDocs(students, perm)
         IN  [disk |-> Put(Put(d, MECHTRONICS_GROUPS_FILE, g.mech),
                           RENEWABLE_GROUPS_FILE, g.renew),
              ok |-> TRUE]

\* main1.py student_interface, lines 205-212: the checks of a submitted form
form_checks1(d, name, index) ==
    IF name = <<>> \/ index = <<>> THEN "invalid"
    ELSE IF ~validate_name1(name) THEN "invalid"
    ELSE IF ~validate_index1(index) THEN "invalid"
    ELSE IF is_duplicate(d, index) THEN "duplicate"
    ELSE "ok"

\* main1.py student_interface, lines 204-229, c being the outcome of the
\* checks
student_interface(d, c, name, index, perm, t) ==
    LET students == Append(ReadOr(d, STUDENTS_FILE, <<>>),
                           StudentRecord1(name, index, t))
        d1 == Put(d, STUDENTS_FILE, students)
        ag == assign_groups(d1, students, perm)
    IN  IF c # "ok" THEN [disk |-> d, result |-> c, grouped |-> FALSE]
        ELSE IF Len(students) >= MIN_STUDENTS1
        THEN [disk |-> ag.disk, result |-> "ok", grouped |-> ag.ok]
        ELSE [disk |-> d1, result |-> "ok", grouped |-> FALSE]

\* main1.py manage_students, lines 326-332: the student at position i deleted
manage_students(d, i, perm) ==
    LET students == Pop(ReadOr(d, STUDENTS_FILE, <<>>), i)
        d1 == Put(d, STUDENTS_FILE, students)
        ag == assign_groups(d1, students, perm)
    IN  [disk |-> ag.disk, result |-> "ok", grouped |-> ag.ok]

\* main1.py view_groups, lines 366-372: Reassign Groups
view_groups(d, perm) ==
    LET r == assign_groups(d, ReadOr(d, STUDENTS_FILE, <<>>), perm)
    IN  [disk |-> r.disk, result |-> IF r.ok THEN "ok" ELSE "insufficient",
         grouped |-> r.ok]

\* main1.py create_backup: the *.json files copied into backup_<timestamp>,
\* a directory that may exist already
create_backup1(d, bk, t) ==
    LET timestamp == SecondOf(t)
        copied    == [files |-> Merge(IF timestamp \in DOMAIN bk
                                      THEN bk[timestamp].files ELSE <<>>,
                                      ArchiveFiles(d)),
                      taken |-> Some(d)]
        app_state == Merge(ReadOr(d, APP_STATE_FILE, <<>>),
                           [last_backup |-> Some(timestamp)])
    IN  [disk    |-> Put(d, APP_STATE_FILE, app_state),
         backups |-> Put(bk, timestamp, copied),
         label   |-> timestamp]

(***************************************************************************)
(* The requests the model submits.                                         *)
(***************************************************************************)
\* a registration form: the two text fields as typed
Form(name, index) == [name |-> name, index |-> index]

Padded(s) == <<" ">> \o s \o <<" ">>

\* main.py: the forms of three students, a form with the first student's
\* name in capitals between blanks, a form with the second student's index
\* in lower case between blanks, and a form that is not valid
Forms ==
    {Form(NameOf(i), IndexOf(i)) : i \in {1, 3, 4}} \cup
    {Form(Padded(Upper(NameOf(1))), IndexOf(5)),
     Form(NameOf(5), Padded(Lower(IndexOf(2)))),
     Form(<<"X">>, <<"S","T","U","B">>)}

\* main1.py: the form of the sixth student, a form with the first student's
\* name in lower case and the seventh student's index in lower case, and a
\* form that is not valid
Forms1 ==
    {Form(NameOf(6), IndexOf(6)),
     Form(Lower(NameOf(1)), Lower(IndexOf(7))),
     Form(<<"X">>, <<"S","T","U","B">>)}

\* uploads that are not archives of this program: one without any *.json
\* entry, one whose student list holds the first student twice, one whose
\* only entry is a *.json file that is no document of the store, and one
\* that holds nothing but a group set with a member
ForeignArchives ==
    {[files |-> (<<"readme", "txt">> :> <<"hello">>), taken |-> None],
     [files |-> (STUDENTS_FILE :>
                   <<StudentRecord(NameOf(1), IndexOf(1), 0),
                     StudentRecord(NameOf(1), IndexOf(1), 0)>>),
      taken |-> None],
     [files |-> (<<"notes", "json">> :> <<"hello">>), taken |-> None],
     [files |-> (MECH_FILE :>
                   [EmptyMech EXCEPT ![GA] =
                      <<entry(StudentRecord(NameOf(8), IndexOf(8), 0),
                              GA, MECH_LAB)>>]),
      taken |-> None]}

(***************************************************************************)
(* One document file at the level of the file system: _write and _read of  *)
(* main.py, save_data and load_data of main1.py.  A document is a list of  *)
(* digits, its text is what json.dump writes, character after character;   *)
(* a write may stop at any character, by an exception or by the end of the *)
(* process, and a reader may open the file at any moment.                  *)
(***************************************************************************)
\* the documents written: the lists of at most MaxItems digits 0 and 1
Docs == UNION {[1..n -> {0, 1}] : n \in 0..MaxItems}

\* json.dump(data): the text of a list
RECURSIVE DumpItems(_)
DumpItems(doc) ==
    IF doc = <<>> THEN <<>>
    ELSE IF Len(doc) = 1 THEN <<DigitChars[doc[1] + 1]>>
    ELSE <<DigitChars[doc[1] + 1], ",">> \o DumpItems(Tail(doc))

Dump(doc) == <<"[">> \o DumpItems(doc) \o <<"]">>

\* json.load: Some(list) for the text of a list, None (the JSONDecodeError
\* that _read and load_data turn into None) for anything else
Parse(text) ==
    LET inner == SubSeq(text, 2, Len(text) - 1)
        wellFormed ==
            \/ inner = <<>>
            \/ /\ Len(inner) % 2 = 1
               /\ \A i \in DOMAIN inner :
                     IF i % 2 = 1 THEN IsDigit(inner[i]) ELSE inner[i] = ","
    IN  IF Len(text) >= 2 /\ text[1] = "[" /\ text[Len(text)] = "]" /\ wellFormed
        THEN Some([k \in 1..((Len(inner) + 1) \div 2) |->
                      PosIn(inner[2 * k - 1], DigitChars) - 1])
        ELSE None

\* the file holding document doc, nothing being written
IoOf(doc) ==
    [file    |-> Dump(doc),   \* the text of the file at path
     tmp     |-> None,        \* the text of path + ".tmp", if it exists
     pc      |-> "idle",      \* where the writer is: idle, dump, replace
     data    |-> doc,         \* the document of the latest write
     old     |-> doc,         \* the document committed before it began
     outcome |-> "done",      \* how the latest write ended
     seen    |-> None,        \* what the reader got since it began
     writes  |-> 0]

(***************************************************************************)
(* Initial states: DATA_DIR as earlier requests left it (init_storage and  *)
(* init_data_files keep the files they find).  Seed(n) is the directory    *)
(* after the first n students registered in turn at time 0, every shuffle  *)
(* having returned the list in its order.                                  *)
(***************************************************************************)
Id(n) == [i \in 1..n |-> i]

RECURSIVE Seed(_)
Seed(n) ==
    IF n = 0 THEN Defaults
    ELSE student_page(Seed(n - 1),
                      form_checks(Seed(n - 1), NameOf(n), IndexOf(n)),
                      Id(n), Id(n), 0, "none", TRUE).disk

RECURSIVE Seed1(_)
Seed1(n) ==
    IF n = 0 THEN Defaults1
    ELSE student_interface(Seed1(n - 1),
                           form_checks1(Seed1(n - 1), NameOf(n), IndexOf(n)),
                           NameOf(n), IndexOf(n), Id(n), 0).disk

SeedSizes  == {0, MIN_STUDENTS - 1, MIN_STUDENTS, MIN_STUDENTS + 1}
SeedSizes1 == {0, MIN_STUDENTS1 - 1, MIN_STUDENTS1, MIN_STUDENTS1 + 1}

Init ==
    /\ impl \in {"main", "main1"}
    /\ disk \in IF impl = "main" THEN {Seed(n) : n \in SeedSizes}
                ELSE {Seed1(n) : n \in SeedSizes1}
    /\ clock = 0
    /\ backups = <<>>
    /\ last = [op |-> "init"]
    /\ steps = 0
    /\ shuffles = 0
    /\ pStudents = <<>>
    /\ pGroups = NoGroups
    /\ io = IoOf(<<>>)
    /\ sess = <<>>

(***************************************************************************)
(* Requests.  Each is handled to its end before the next one starts; t is  *)
(* the time at which it is handled.                                        *)
(***************************************************************************)
Students == ReadOr(disk, STUDENTS_FILE, <<>>)

\* may one more request be handled
CanHandle ==
    /\ steps < MaxSteps
    /\ shuffles < MaxShuffles

\* a request handled at time t
Handled(t, shuffled) ==
    /\ steps' = steps + 1
    /\ shuffles' = shuffles + (IF shuffled THEN 1 ELSE 0)
    /\ clock' = t
    /\ UNCHANGED <<impl, partVars, io, sess>>

Times == clock..MaxClock

\* the faults that change what a handler does when its list has n students
FaultsFor(n) == IF NeedsGrouping(n) THEN Faults ELSE {"none"}

\* the shuffles a request draws
Draws(shuffled, n) == IF shuffled THEN Perms(n) ELSE {<<>>}

Register ==
    /\ impl = "main"
    /\ CanHandle
    /\ \E f \in Forms :
         LET c == form_checks(disk, f.name, f.index)
             n == IF c.result = "ok" THEN Len(Students) + 1 ELSE 0
         IN  \E fault \in FaultsFor(n) :
               LET shuffled == NeedsGrouping(n)
               IN  \E pm \in Draws(shuffled, n), pr \in Draws(shuffled, n),
                         t \in Times, logged \in BOOLEAN :
                        LET r == student_page(disk, c, pm, pr, t, fault, logged)
                        IN  /\ Handled(t, shuffled)
                            /\ disk' = r.disk
                            /\ last' = [op |-> "register", name |-> f.name,
                                        index |-> f.index, result |-> r.result,
                                        grouped |-> r.grouped]
                            /\ UNCHANGED backups

Remove ==
    /\ impl = "main"
    /\ CanHandle
    /\ \E i \in DOMAIN Students :
         LET n == Len(Students) - 1
         IN  \E fault \in FaultsFor(n) :
               LET shuffled == NeedsGrouping(n)
               IN  \E pm \in Draws(shuffled, n), pr \in Draws(shuffled, n),
                         t \in Times, logged \in BOOLEAN :
                        LET r == remove_student(disk, i, pm, pr, t, fault, logged)
                        IN  /\ Handled(t, shuffled)
                            /\ disk' = r.disk
                            /\ last' = [op |-> "remove", pos |-> i,
                                        result |-> r.result,
                                        grouped |-> r.grouped]
                            /\ UNCHANGED backups

\* main.py admin_page, lines 927-933 and 1003-1009: Re-generate Groups
Regroup ==
    /\ impl = "main"
    /\ LET n == Len(Students)
           shuffled == NeedsGrouping(n)
       IN  /\ CanHandle
           /\ \E fault \in FaultsFor(n),
                 pm \in Draws(shuffled, n), pr \in Draws(shuffled, n),
                 t \in Times, logged \in BOOLEAN :
                LET r == run_grouping(disk, pm, pr, t, fault, logged)
                IN  /\ Handled(t, shuffled)
                    /\ disk' = r.disk
                    /\ last' = [op |-> "regroup",
                                result |-> IF r.ok THEN "ok"
                                           ELSE IF r.raised THEN "raised"
                                           ELSE "insufficient",
                                grouped |-> r.ok]
                    /\ UNCHANGED backups

\* main.py admin_page, lines 936-937 and 1142-1143: Create Backup
Backup ==
    /\ impl = "main"
    /\ CanHandle
    /\ \E t \in Times, logged \in BOOLEAN :
         LET r == create_backup(disk, backups, t, logged)
         IN  /\ Handled(t, FALSE)
             /\ disk' = r.disk
             /\ backups' = r.backups
             /\ last' = [op |-> "backup", label |-> r.label,
                         result |-> IF r.raised THEN "raised" ELSE "ok"]

Clear ==
    /\ impl = "main"
    /\ CanHandle
    /\ \E t \in Times, logged \in BOOLEAN :
         LET r == clear_all(disk, backups, t, logged)
         IN  /\ Handled(t, FALSE)
             /\ disk' = r.disk
             /\ backups' = r.backups
             /\ last' = [op |-> "clear", result |-> "ok"]

\* the archives an administrator can upload: a download of one on the
\* server, or a file from elsewhere
Uploads == {backups[l] : l \in DOMAIN backups} \cup ForeignArchives

RestoreUpload ==
    /\ impl = "main"
    /\ CanHandle
    /\ \E zip \in Uploads, t \in Times, logged \in BOOLEAN :
         LET r == restore_upload(disk, backups, zip, t, logged)
         IN  /\ Handled(t, FALSE)
             /\ disk' = r.disk
             /\ backups' = r.backups
             /\ last' = [op |-> "restore", zip |-> r.zip,
                         result |-> IF r.ok THEN "ok" ELSE "failed",
                         logged |-> r.ok /\ logged,
                         count |-> r.count, written |-> r.written]

RestoreServer ==
    /\ impl = "main"
    /\ CanHandle
    /\ \E sel \in DOMAIN backups, t \in Times, logged \in BOOLEAN :
         LET r == restore_server(disk, backups, sel, t, logged)
         IN  /\ Handled(t, FALSE)
             /\ disk' = r.disk
             /\ backups' = r.backups
             /\ last' = [op |-> "restore", zip |-> r.zip,
                         result |-> IF r.ok THEN "ok" ELSE "failed",
                         logged |-> r.ok /\ logged,
                         count |-> r.count, written |-> r.written]

Register1 ==
    /\ impl = "main1"
    /\ CanHandle
    /\ \E f \in Forms1 :
         LET c == form_checks1(disk, f.name, f.index)
             n == IF c = "ok" THEN Len(Students) + 1 ELSE 0
             shuffled == n >= MIN_STUDENTS1
         IN  /\ CanHandle
             /\ \E perm \in Draws(shuffled, n), t \in Times :
                  LET r == student_interface(disk, c, f.name, f.index, perm, t)
                  IN  /\ Handled(t, shuffled)
                      /\ disk' = r.disk
                      /\ last' = [op |-> "register", name |-> f.name,
                                  index |-> f.index, result |-> r.result,
                                  grouped |-> r.grouped]
                      /\ UNCHANGED backups

Delete1 ==
    /\ impl = "main1"
    /\ CanHandle
    /\ \E i \in DOMAIN Students :
         LET n == Len(Students) - 1
             shuffled == n >= MIN_STUDENTS1
         IN  /\ CanHandle
             /\ \E perm \in Draws(shuffled, n), t \in Times :
                  LET r == manage_students(disk, i, perm)
                  IN  /\ Handled(t, shuffled)
                      /\ disk' = r.disk
                      /\ last' = [op |-> "remove", pos |-> i,
                                  result |-> r.result, grouped |-> r.grouped]
                      /\ UNCHANGED backups

Reassign1 ==
    /\ impl = "main1"
    /\ LET n == Len(Students)
           shuffled == n >= MIN_STUDENTS1
       IN  /\ CanHandle
           /\ \E perm \in Draws(shuffled, n), t \in Times :
                LET r == view_groups(disk, perm)
                IN  /\ Handled(t, shuffled)
                    /\ disk' = r.disk
                    /\ last' = [op |-> "regroup", result |-> r.result,
                                grouped |-> r.grouped]
                    /\ UNCHANGED backups

Backup1 ==
    /\ impl = "main1"
    /\ CanHandle
    /\ \E t \in Times :
         LET r == create_backup1(disk, backups, t)
         IN  /\ Handled(t, FALSE)
             /\ disk' = r.disk
             /\ backups' = r.backups
             /\ last' = [op |-> "backup", label |-> r.label, result |-> "ok"]

Next ==
    \/ Register
    \/ Remove
    \/ Regroup
    \/ Backup
    \/ Clear
    \/ RestoreUpload
    \/ RestoreServer
    \/ Register1
    \/ Delete1
    \/ Reassign1
    \/ Backup1

Spec == Init /\ [][Next]_vars

(***************************************************************************)
(* The partition harness: the grouping functions applied once to a list.   *)
(***************************************************************************)
PartInit ==
    /\ impl \in {"main", "main1"}
    /\ pStudents \in {Roster(n, impl) : n \in 0..MaxN}
    /\ pGroups = NoGroups
    /\ clock = 0
    /\ disk = Defaults
    /\ backups = <<>>
    /\ last = [op |-> "init"]
    /\ steps = 0
    /\ shuffles = 0
    /\ io = IoOf(<<>>)
    /\ sess = <<>>

\* run_grouping, line 398: the 2-group lab
PartBuildMech ==
    /\ pGroups = NoGroups
    /\ impl = "main"
    /\ Len(pStudents) >= MIN_STUDENTS
    /\ \E perm \in Perms(Len(pStudents)) :
         pGroups' = [call |-> "mech", ok |-> TRUE,
                     groups |-> _build_mech_groups(pStudents, perm)]
    /\ UNCHANGED <<pStudents, appVars, io, sess>>

\* run_grouping, line 399: the 3-group lab
PartBuildRenew ==
    /\ pGroups = NoGroups
    /\ impl = "main"
    /\ Len(pStudents) >= MIN_STUDENTS
    /\ \E perm \in Perms(Len(pStudents)) :
         pGroups' = [call |-> "renew", ok |-> TRUE,
                     groups |-> _build_renew_groups(pStudents, perm)]
    /\ UNCHANGED <<pStudents, appVars, io, sess>>

\* run_grouping, lines 395-396: too few students
PartInsufficient ==
    /\ pGroups = NoGroups
    /\ impl = "main"
    /\ Len(pStudents) < MIN_STUDENTS
    /\ pGroups' = [call |-> "run_grouping", ok |-> FALSE]
    /\ UNCHANGED <<pStudents, appVars, io, sess>>

\* main1.py assign_groups on a list long enough
PartAssignGroups ==
    /\ pGroups = NoGroups
    /\ impl = "main1"
    /\ Len(pStudents) >= MIN_STUDENTS1
    /\ \E perm \in Perms(Len(pStudents)) :
         LET g == AssignDocs(pStudents, perm)
         IN  pGroups' = [call |-> "assign_groups", ok |-> TRUE,
                         mech |-> g.mech, renew |-> g.renew]
    /\ UNCHANGED <<pStudents, appVars, io, sess>>

\* main1.py assign_groups, lines 125-126
PartAssignTooFew ==
    /\ pGroups = NoGroups
    /\ impl = "main1"
    /\ Len(pStudents) < MIN_STUDENTS1
    /\ pGroups' = [call |-> "assign_groups", ok |-> FALSE]
    /\ UNCHANGED <<pStudents, appVars, io, sess>>

PartNext ==
    \/ PartBuildMech
    \/ PartBuildRenew
    \/ PartInsufficient
    \/ PartAssignGroups
    \/ PartAssignTooFew

SpecPart == PartInit /\ [][PartNext]_vars

(***************************************************************************)
(* The steps of a write and of a read on the one document file.            *)
(***************************************************************************)
WriteInit ==
    /\ impl \in {"main", "main1"}
    /\ io \in {IoOf(doc) : doc \in Docs}
    /\ sess = <<>>
    /\ clock = 0
    /\ disk = Defaults
    /\ backups = <<>>
    /\ last = [op |-> "init"]
    /\ steps = 0
    /\ shuffles = 0
    /\ pStudents = <<>>
    /\ pGroups = NoGroups

IoFrame == UNCHANGED <<appVars, partVars, sess>>

\* the document committed when a new write begins
Committed == IF io.outcome = "done" THEN io.data ELSE io.old

\* _write, line 289: open(tmp, "w") makes the temporary file empty
WriteOpen ==
    /\ impl = "main"
    /\ io.pc = "idle"
    /\ io.writes < MaxWrites
    /\ \E data \in Docs :
         io' = [io EXCEPT !.tmp = Some(<<>>), !.pc = "dump", !.data = data,
                          !.old = Committed, !.outcome = "running",
                          !.seen = None, !.writes = @ + 1]
    /\ IoFrame

\* _write, line 290: json.dump writes the next character
WriteDump ==
    /\ impl = "main"
    /\ io.pc = "dump"
    /\ Len(io.tmp[1]) < Len(Dump(io.data))
    /\ io' = [io EXCEPT !.tmp =
                 Some(Append(io.tmp[1], Dump(io.data)[Len(io.tmp[1]) + 1]))]
    /\ IoFrame

\* _write, line 289-290: the text is complete, the with block closes tmp
WriteClose ==
    /\ impl = "main"
    /\ io.pc = "dump"
    /\ Len(io.tmp[1]) = Len(Dump(io.data))
    /\ io' = [io EXCEPT !.pc = "replace"]
    /\ IoFrame

\* _write, line 291 and the finally block: os.replace(tmp, path)
WriteReplace ==
    /\ impl = "main"
    /\ io.pc = "replace"
    /\ io' = [io EXCEPT !.file = io.tmp[1], !.tmp = None, !.pc = "idle",
                        !.outcome = "done"]
    /\ IoFrame

\* _write, lines 292-297: an exception before os.replace; the finally block
\* removes the temporary file
WriteRaise ==
    /\ impl = "main"
    /\ io.pc \in {"dump", "replace"}
    /\ io' = [io EXCEPT !.tmp = None, !.pc = "idle", !.outcome = "raised"]
    /\ IoFrame

\* the process ends before os.replace: nothing is cleaned up
WriteCrash ==
    /\ impl = "main"
    /\ io.pc \in {"dump", "replace"}
    /\ io' = [io EXCEPT !.pc = "idle", !.outcome = "crashed"]
    /\ IoFrame

\* main.py _read
ReadDoc ==
    /\ impl = "main"
    /\ io.seen = None
    /\ io' = [io EXCEPT !.seen = Some(Parse(io.file))]
    /\ IoFrame

\* save_data, line 69: open(file_path, 'w') makes the file itself empty
SaveOpen ==
    /\ impl = "main1"
    /\ io.pc = "idle"
    /\ io.writes < MaxWrites
    /\ \E data \in Docs :
         io' = [io EXCEPT !.file = <<>>, !.pc = "dump", !.data = data,
                          !.old = Committed, !.outcome = "running",
                          !.seen = None, !.writes = @ + 1]
    /\ IoFrame

\* save_data, line 70: json.dump writes the next character
SaveDump ==
    /\ impl = "main1"
    /\ io.pc = "dump"
    /\ Len(io.file) < Len(Dump(io.data))
    /\ io' = [io EXCEPT !.file = Append(io.file, Dump(io.data)[Len(io.file) + 1])]
    /\ IoFrame

\* save_data, lines 69-70: the text is complete, the with block closes
SaveClose ==
    /\ impl = "main1"
    /\ io.pc = "dump"
    /\ Len(io.file) = Len(Dump(io.data))
    /\ io' = [io EXCEPT !.pc = "idle", !.outcome = "done"]
    /\ IoFrame

\* an exception in json.dump or the end of the process
SaveInterrupted ==
    /\ impl = "main1"
    /\ io.pc = "dump"
    /\ io' = [io EXCEPT !.pc = "idle", !.outcome = "raised"]
    /\ IoFrame

\* main1.py load_data
LoadDoc ==
    /\ impl = "main1"
    /\ io.seen = None
    /\ io' = [io EXCEPT !.seen = Some(Parse(io.file))]
    /\ IoFrame

WriteNext ==
    \/ WriteOpen
    \/ WriteDump
    \/ WriteClose
    \/ WriteReplace
    \/ WriteRaise
    \/ WriteCrash
    \/ ReadDoc
    \/ SaveOpen
    \/ SaveDump
    \/ SaveClose
    \/ SaveInterrupted
    \/ LoadDoc

SpecWrite == WriteInit /\ [][WriteNext]_vars

(***************************************************************************)
(* The handlers of main.py with and without a working activity log: each   *)
(* request is handled twice from the same store, once with a log_event     *)
(* whose body raises (quiet) and once with one that writes the log (loud); *)
(* last keeps what either run returned and left, the store goes on as the  *)
(* quiet run left it.                                                      *)
(***************************************************************************)
NonLog(d) == [f \in DOMAIN d \ {LOG_FILE} |-> d[f]]

\* what a handler returned, the documents other than the log, the backups
Outcome(result, d, bk) == [result |-> result, docs |-> NonLog(d), backups |-> bk]

LogSeedSizes == {0, MIN_STUDENTS - 1, MIN_STUDENTS}

LogInit ==
    /\ Init
    /\ impl = "main"
    /\ Len(Students) \in LogSeedSizes

LogRegister ==
    /\ CanHandle
    /\ \E f \in Forms :
         LET c == form_checks(disk, f.name, f.index)
             n == IF c.result = "ok" THEN Len(Students) + 1 ELSE 0
         IN  \E fault \in FaultsFor(n) :
               LET shuffled == NeedsGrouping(n)
               IN  \E pm \in Draws(shuffled, n), pr \in Draws(shuffled, n),
                         t \in Times :
                        LET q == student_page(disk, c, pm, pr, t, fault, FALSE)
                            l == student_page(disk, c, pm, pr, t, fault, TRUE)
                        IN  /\ Handled(t, shuffled)
                            /\ disk' = q.disk
                            /\ last' = [op |-> "register",
                                        quiet |-> Outcome(<<q.result, q.grouped>>,
                                                          q.disk, backups),
                                        loud  |-> Outcome(<<l.result, l.grouped>>,
                                                          l.disk, backups)]
                            /\ UNCHANGED backups

LogRemove ==
    /\ CanHandle
    /\ \E i \in DOMAIN Students :
         LET n == Len(Students) - 1
         IN  \E fault \in FaultsFor(n) :
               LET shuffled == NeedsGrouping(n)
               IN  \E pm \in Draws(shuffled, n), pr \in Draws(shuffled, n),
                         t \in Times :
                        LET q == remove_student(disk, i, pm, pr, t, fault, FALSE)
                            l == remove_student(disk, i, pm, pr, t, fault, TRUE)
                        IN  /\ Handled(t, shuffled)
                            /\ disk' = q.disk
                            /\ last' = [op |-> "remove",
                                        quiet |-> Outcome(<<q.result, q.grouped>>,
                                                          q.disk, backups),
                                        loud  |-> Outcome(<<l.result, l.grouped>>,
                                                          l.disk, backups)]
                            /\ UNCHANGED backups

LogRegroup ==
    /\ CanHandle
    /\ LET n == Len(Students)
           shuffled == NeedsGrouping(n)
       IN  \E fault \in FaultsFor(n),
              pm \in Draws(shuffled, n), pr \in Draws(shuffled, n),
              t \in Times :
             LET q == run_grouping(disk, pm, pr, t, fault, FALSE)
                 l == run_grouping(disk, pm, pr, t, fault, TRUE)
             IN  /\ Handled(t, shuffled)
                 /\ disk' = q.disk
                 /\ last' = [op |-> "regroup",
                             quiet |-> Outcome(<<q.ok, q.raised>>, q.disk, backups),
                             loud  |-> Outcome(<<l.ok, l.raised>>, l.disk, backups)]
                 /\ UNCHANGED backups

LogBackup ==
    /\ CanHandle
    /\ \E t \in Times :
         LET q == create_backup(disk, backups, t, FALSE)
             l == create_backup(disk, backups, t, TRUE)
         IN  /\ Handled(t, FALSE)
             /\ disk' = q.disk
             /\ backups' = q.backups
             /\ last' = [op |-> "backup",
                         quiet |-> Outcome(<<q.label, q.raw>>, q.disk, q.backups),
                         loud  |-> Outcome(<<l.label, l.raw>>, l.disk, l.backups)]

LogClear ==
    /\ CanHandle
    /\ \E t \in Times :
         LET q == clear_all(disk, backups, t, FALSE)
             l == clear_all(disk, backups, t, TRUE)
         IN  /\ Handled(t, FALSE)
             /\ disk' = q.disk
             /\ backups' = q.backups
             /\ last' = [op |-> "clear",
                         quiet |-> Outcome("ok", q.disk, q.backups),
                         loud  |-> Outcome("ok", l.disk, l.backups)]

LogRestoreUpload ==
    /\ CanHandle
    /\ \E zip \in Uploads, t \in Times :
         LET q == restore_upload(disk, backups, zip, t, FALSE)
             l == restore_upload(disk, backups, zip, t, TRUE)
         IN  /\ Handled(t, FALSE)
             /\ disk' = q.disk
             /\ backups' = q.backups
             /\ last' = [op |-> "restore",
                         quiet |-> Outcome(q.ok, q.disk, q.backups),
                         loud  |-> Outcome(l.ok, l.disk, l.backups)]

LogRestoreServer ==
    /\ CanHandle
    /\ \E sel \in DOMAIN backups, t \in Times :
         LET q == restore_server(disk, backups, sel, t, FALSE)
             l == restore_server(disk, backups, sel, t, TRUE)
         IN  /\ Handled(t, FALSE)
             /\ disk' = q.disk
             /\ backups' = q.backups
             /\ last' = [op |-> "restore",
                         quiet |-> Outcome(q.ok, q.disk, q.backups),
                         loud  |-> Outcome(l.ok, l.disk, l.backups)]

LogNext ==
    \/ LogRegister
    \/ LogRemove
    \/ LogRegroup
    \/ LogBackup
    \/ LogClear
    \/ LogRestoreUpload
    \/ LogRestoreServer

SpecLog == LogInit /\ [][LogNext]_vars

(***************************************************************************)
(* main.py log_event called on logs short and long: the store starts with  *)
(* a log of n entries, each carrying its position (a log longer than the   *)
(* cap is one that a restore put there), and every step is one call; last  *)
(* keeps the log before the call and what was to be logged.                *)
(***************************************************************************)
LogOf(n) ==
    [k \in 1..n |-> [event |-> "seed", detail |-> [n |-> k], timestamp |-> 0]]

LogLengths == {0, 1, LOG_CAP - 1, LOG_CAP, LOG_CAP + 1}

\* the events main.py logs
Events ==
    {"student_registered", "groups_generated", "student_removed",
     "backup_created", "backup_restored", "data_cleared",
     "admin_login", "admin_login_failed"}

AppendInit ==
    /\ impl = "main"
    /\ disk \in {Put(Defaults, LOG_FILE, LogOf(n)) : n \in LogLengths}
    /\ clock = 0
    /\ backups = <<>>
    /\ last = [op |-> "init"]
    /\ steps = 0
    /\ shuffles = 0
    /\ pStudents = <<>>
    /\ pGroups = NoGroups
    /\ io = IoOf(<<>>)
    /\ sess = <<>>

LogEvent ==
    /\ steps < MaxSteps
    /\ \E event \in Events, t \in Times, logged \in BOOLEAN :
         /\ disk' = log_event(disk, event, [n |-> steps], t, logged)
         /\ last' = [op |-> "log_event", before |-> ReadOr(disk, LOG_FILE, <<>>),
                     event |-> event, detail |-> [n |-> steps],
                     logged |-> logged]
         /\ Handled(t, FALSE)
    /\ UNCHANGED backups

AppendNext == LogEvent

SpecAppend == AppendInit /\ [][AppendNext]_vars

(***************************************************************************)
(* Backups of stores in every condition: the administrator creates backups *)
(* and restores uploads, among them one whose app_state.json is a list.    *)
(***************************************************************************)
ListAsState ==
    [files |-> (STATE_FILE :> [json_list |-> <<0>>]), taken |-> None]

\* an upload with the student list of two students and a text file
WithReadme ==
    [files |-> (STUDENTS_FILE :> Roster(2, "main")) @@
               (<<"readme", "txt">> :> <<"hello">>),
     taken |-> None]

UploadAny ==
    /\ impl = "main"
    /\ CanHandle
    /\ \E zip \in Uploads \cup {ListAsState, WithReadme}, t \in Times, logged \in BOOLEAN :
         LET r == restore_upload(disk, backups, zip, t, logged)
         IN  /\ Handled(t, FALSE)
             /\ disk' = r.disk
             /\ backups' = r.backups
             /\ last' = [op |-> "restore", zip |-> r.zip,
                         result |-> IF r.ok THEN "ok" ELSE "failed",
                         logged |-> r.ok /\ logged,
                         count |-> r.count, written |-> r.written]

BackupNext ==
    \/ Backup
    \/ Backup1
    \/ UploadAny

SpecBackup == Init /\ [][BackupNext]_vars

(***************************************************************************)
(* Listing the backups.  The key of an archive in backups is the second it *)
(* was written in; its file name is that second as strftime prints it.     *)
(* The day and the hour are fixed, the clock runs inside one hour.         *)
(***************************************************************************)
\* %M or %S without the leading zero
Unpadded(n) ==
    IF n < 10 THEN <<DigitChars[n + 1]>>
    ELSE <<DigitChars[(n \div 10) + 1], DigitChars[(n % 10) + 1]>>

\* %M and %S: two digits
TwoDigits(n) == <<DigitChars[(n \div 10) + 1], DigitChars[(n % 10) + 1]>>

\* strftime("%Y%m%d_%H%M%S") of second t
Stamp(t) ==
    <<"2","0","2","4","0","1","0","1","_","0","0">> \o
    TwoDigits((t \div 60) % 60) \o TwoDigits(t % 60)

BackupPrefix == <<"b","a","c","k","u","p","_">>
ZipSuffix    == <<".","z","i","p">>

\* the characters of these names in the order of their code points
CodeOrder == <<".">> \o DigitChars \o <<"_">> \o LowerChars

\* a < b for str
RECURSIVE StrLess(_, _)
StrLess(a, b) ==
    IF b = <<>> THEN FALSE
    ELSE IF a = <<>> THEN TRUE
    ELSE IF Head(a) = Head(b) THEN StrLess(Tail(a), Tail(b))
    ELSE PosIn(Head(a), CodeOrder) < PosIn(Head(b), CodeOrder)

\* sorted(names, reverse=True)
RECURSIVE SortedReverse(_)
SortedReverse(names) ==
    IF names = {} THEN <<>>
    ELSE LET top == CHOOSE n \in names : \A m \in names \ {n} : StrLess(m, n)
         IN  <<top>> \o SortedReverse(names \ {top})

\* main.py list_backups: the *.zip files of BACKUP_DIR, names descending
list_backups(bk) ==
    LET names == {BackupPrefix \o Stamp(l) \o ZipSuffix : l \in DOMAIN bk}
        order == SortedReverse(names)
    IN  [i \in DOMAIN order |->
            [name  |-> order[i],
             label |-> SubSeq(order[i], Len(BackupPrefix) + 1,
                              Len(order[i]) - Len(ZipSuffix))]]

\* main1.py list_backups: the backup_ directories, timestamps descending
list_backups1(bk) ==
    LET stamps == {Stamp(l) : l \in DOMAIN bk}
        order  == SortedReverse(stamps)
    IN  [i \in DOMAIN order |->
            [name |-> BackupPrefix \o order[i], timestamp |-> order[i]]]

MaxListed == 3   \* backups created in one behaviour of the listing

\* the seconds at which a backup may be created
ListTimes == {0, 9, 10, 59, 60, 599, 600}

ListCreate ==
    /\ impl = "main"
    /\ steps < MaxListed
    /\ \E t \in {u \in ListTimes : u >= clock}, logged \in BOOLEAN :
         LET r == create_backup(disk, backups, t, logged)
         IN  /\ Handled(t, FALSE)
             /\ disk' = r.disk
             /\ backups' = r.backups
             /\ last' = [op |-> "backup", label |-> r.label,
                         result |-> IF r.raised THEN "raised" ELSE "ok",
                         before |-> list_backups(backups),
                         listed |-> list_backups(r.backups)]

ListCreate1 ==
    /\ impl = "main1"
    /\ steps < MaxListed
    /\ \E t \in {u \in ListTimes : u >= clock} :
         LET r == create_backup1(disk, backups, t)
         IN  /\ Handled(t, FALSE)
             /\ disk' = r.disk
             /\ backups' = r.backups
             /\ last' = [op |-> "backup", label |-> r.label, result |-> "ok",
                         before |-> list_backups1(backups),
                         listed |-> list_backups1(r.backups)]

ListNext ==
    \/ ListCreate
    \/ ListCreate1

SpecList == Init /\ [][ListNext]_vars

(***************************************************************************)
(* The name of a form validated: last holds the text typed, then what the  *)
(* validation made of it.                                                  *)
(***************************************************************************)
MaxName == 3   \* longest name typed

NameChars == {"a", "B", " ", "-", "'", ".", "1"}

NameInputs == UNION {[1..n -> NameChars] : n \in 0..MaxName}

NameInit ==
    /\ impl \in {"main", "main1"}
    /\ last \in {[op |-> "typed", raw |-> raw] : raw \in NameInputs}
    /\ disk = IF impl = "main" THEN Defaults ELSE Defaults1
    /\ clock = 0
    /\ backups = <<>>
    /\ steps = 0
    /\ shuffles = 0
    /\ pStudents = <<>>
    /\ pGroups = NoGroups
    /\ io = IoOf(<<>>)
    /\ sess = <<>>

\* main.py student_page, line 759
ValidateName ==
    /\ impl = "main"
    /\ last.op = "typed"
    /\ LET r == validate_name(last.raw)
       IN  last' = [op |-> "validate_name", raw |-> last.raw, ok |-> r.ok,
                    value |-> r.value]
    /\ UNCHANGED <<impl, clock, disk, backups, steps, shuffles, partVars, io,
                   sess>>

\* main1.py student_interface, lines 207 and 217: the name checked, and the
\* name kept when it passed
ValidateName1 ==
    /\ impl = "main1"
    /\ last.op = "typed"
    /\ last' = [op |-> "validate_name", raw |-> last.raw,
                ok |-> validate_name1(last.raw), value |-> Strip(last.raw)]
    /\ UNCHANGED <<impl, clock, disk, backups, steps, shuffles, partVars, io,
                   sess>>

NameNext ==
    \/ ValidateName
    \/ ValidateName1

SpecName == NameInit /\ [][NameNext]_vars

(***************************************************************************)
(* Requests handled at the same time.  Streamlit runs the script of every  *)
(* browser session in a thread of its own and neither program takes a      *)
(* lock, so the reads and writes of two handlers interleave file by file.  *)
(* A step is one read or one write of a document (a write of main.py is    *)
(* the os.replace of _write).  sess[p] is the handler of session p: pc is  *)
(* where it stands, students the list it read, grouped the list            *)
(* run_grouping read, todo and zipped the files create_backup has yet to   *)
(* read and has read, snap the documents when create_backup began, history *)
(* every content the data directory had while create_backup was reading.   *)
(***************************************************************************)
Session(op, pc, f) ==
    [op |-> op, pc |-> pc, form |-> f, c |-> <<>>, students |-> <<>>,
     grouped |-> <<>>, result |-> "running", todo |-> {}, zipped |-> <<>>,
     snap |-> <<>>, history |-> {}]

Registering(f) == Session("register", "check", f)
Regrouping     == Session("regroup", "g_read", <<>>)
BackingUp      == Session("backup", "b_list", <<>>)

\* two students nobody has registered
FormA == Form(NameOf(5), IndexOf(5))
FormB == Form(NameOf(6), IndexOf(6))

RaceInit ==
    /\ impl \in {"main", "main1"}
    /\ \/ /\ impl = "main"
          /\ disk \in {Seed(0), Seed(MIN_STUDENTS - 2)}
          /\ sess = <<Registering(FormA), Registering(FormB)>>
       \/ /\ impl = "main"
          /\ disk = Seed(MIN_STUDENTS)
          /\ sess = <<Regrouping, BackingUp>>
       \/ /\ impl = "main1"
          /\ disk = Seed1(0)
          /\ sess = <<Registering(FormA), Registering(FormB)>>
    /\ clock = 0
    /\ backups = <<>>
    /\ last = [op |-> "init"]
    /\ steps = 0
    /\ shuffles = 0
    /\ pStudents = <<>>
    /\ pGroups = NoGroups
    /\ io = IoOf(<<>>)

RaceFrame == UNCHANGED <<impl, clock, last, steps, shuffles, partVars, io>>

\* the sessions once session p has become s and the data directory d
Moved(p, s, d) ==
    [q \in DOMAIN sess |->
        LET x == IF q = p THEN s ELSE sess[q]
        IN  IF x.pc = "b_zip" THEN [x EXCEPT !.history = @ \cup {d}] ELSE x]

\* where a handler goes on when run_grouping has returned
AfterGrouping(s, result) ==
    IF s.op = "register" THEN [s EXCEPT !.pc = "log"]
    ELSE [s EXCEPT !.pc = "done", !.result = result]

\* main.py lines 758-771, main1.py lines 205-211: the checks of the form,
\* the duplicate check reading the student list
RaceCheck ==
    /\ \E p \in DOMAIN sess :
         /\ sess[p].pc = "check"
         /\ LET f == sess[p].form
                c == IF impl = "main" THEN form_checks(disk, f.name, f.index)
                     ELSE [result |-> form_checks1(disk, f.name, f.index),
                           name |-> f.name, index |-> f.index]
            IN  sess' = Moved(p, IF c.result = "ok"
                                 THEN [sess[p] EXCEPT !.pc = "read", !.c = c]
                                 ELSE [sess[p] EXCEPT !.pc = "done",
                                                      !.result = c.result],
                              disk)
    /\ UNCHANGED <<disk, backups>>
    /\ RaceFrame

\* main.py lines 774-779, main1.py lines 215-220: the list read again and
\* the record appended to the copy in memory
RaceRead ==
    /\ \E p \in DOMAIN sess :
         /\ sess[p].pc = "read"
         /\ LET c == sess[p].c
                record == IF impl = "main"
                          THEN StudentRecord(c.name, c.index, clock)
                          ELSE StudentRecord1(c.name, c.index, clock)
            IN  sess' = Moved(p, [sess[p] EXCEPT
                                     !.pc = "write",
                                     !.students =
                                         Append(ReadOr(disk, STUDENTS_FILE, <<>>),
                                                record)],
                              disk)
    /\ UNCHANGED <<disk, backups>>
    /\ RaceFrame

\* main.py line 780, main1.py line 221: the copy written back
RaceWrite ==
    /\ \E p \in DOMAIN sess :
         /\ sess[p].pc = "write"
         /\ disk' = Put(disk, STUDENTS_FILE, sess[p].students)
         /\ sess' = Moved(p, [sess[p] EXCEPT !.pc =
                                 IF impl = "main1" THEN "assign"
                                 ELSE IF Len(sess[p].students) >= MIN_STUDENTS
                                 THEN "g_read" ELSE "log"],
                          disk')
    /\ UNCHANGED backups
    /\ RaceFrame

\* run_grouping, lines 394-396
RaceGroupRead ==
    /\ impl = "main"
    /\ \E p \in DOMAIN sess :
         /\ sess[p].pc = "g_read"
         /\ LET students == ReadOr(disk, STUDENTS_FILE, <<>>)
            IN  sess' = Moved(p, IF Len(students) < MIN_STUDENTS
                                 THEN AfterGrouping(sess[p], "insufficient")
                                 ELSE [sess[p] EXCEPT !.pc = "g_mech",
                                                      !.grouped = students],
                              disk)
    /\ UNCHANGED <<disk, backups>>
    /\ RaceFrame

\* run_grouping, line 398
RaceMech ==
    /\ impl = "main"
    /\ \E p \in DOMAIN sess :
         /\ sess[p].pc = "g_mech"
         /\ \E pm \in Perms(Len(sess[p].grouped)) :
              disk' = Put(disk, MECH_FILE,
                          _build_mech_groups(sess[p].grouped, pm))
         /\ sess' = Moved(p, [sess[p] EXCEPT !.pc = "g_renew"], disk')
    /\ UNCHANGED backups
    /\ RaceFrame

\* run_grouping, line 399
RaceRenew ==
    /\ impl = "main"
    /\ \E p \in DOMAIN sess :
         /\ sess[p].pc = "g_renew"
         /\ \E pr \in Perms(Len(sess[p].grouped)) :
              disk' = Put(disk, RENEW_FILE,
                          _build_renew_groups(sess[p].grouped, pr))
         /\ sess' = Moved(p, [sess[p] EXCEPT !.pc = "g_state"], disk')
    /\ UNCHANGED backups
    /\ RaceFrame

\* run_grouping, lines 401-403
RaceGroupState ==
    /\ impl = "main"
    /\ \E p \in DOMAIN sess :
         /\ sess[p].pc = "g_state"
         /\ disk' = Put(disk, STATE_FILE,
                        Merge(ReadOr(disk, STATE_FILE, <<>>),
                              [last_grouping |-> Some(MinuteOf(clock))]))
         /\ sess' = Moved(p, [sess[p] EXCEPT !.pc = "g_log"], disk')
    /\ UNCHANGED backups
    /\ RaceFrame

\* run_grouping, lines 405-406
RaceGroupLog ==
    /\ impl = "main"
    /\ \E p \in DOMAIN sess :
         /\ sess[p].pc = "g_log"
         /\ disk' = log_event(disk, "groups_generated",
                              [total |-> Len(sess[p].grouped)], clock, TRUE)
         /\ sess' = Moved(p, AfterGrouping(sess[p], "ok"), disk')
    /\ UNCHANGED backups
    /\ RaceFrame

\* main.py line 786
RaceLog ==
    /\ impl = "main"
    /\ \E p \in DOMAIN sess :
         /\ sess[p].pc = "log"
         /\ disk' = log_event(disk, "student_registered",
                              [index |-> sess[p].c.index,
                               total |-> Len(sess[p].students)], clock, TRUE)
         /\ sess' = Moved(p, [sess[p] EXCEPT !.pc = "done", !.result = "ok"],
                          disk')
    /\ UNCHANGED backups
    /\ RaceFrame

\* main1.py lines 224-225: assign_groups(students) on the copy in memory
RaceAssign ==
    /\ impl = "main1"
    /\ \E p \in DOMAIN sess :
         /\ sess[p].pc = "assign"
         /\ LET n == Len(sess[p].students)
            IN  \E perm \in Draws(n >= MIN_STUDENTS1, n) :
                  disk' = IF n >= MIN_STUDENTS1
                          THEN assign_groups(disk, sess[p].students, perm).disk
                          ELSE disk
         /\ sess' = Moved(p, [sess[p] EXCEPT !.pc = "done", !.result = "ok"],
                          disk')
    /\ UNCHANGED backups
    /\ RaceFrame

\* create_backup, line 418: os.listdir(DATA_DIR)
RaceList ==
    /\ impl = "main"
    /\ \E p \in DOMAIN sess :
         /\ sess[p].pc = "b_list"
         /\ sess' = Moved(p, [sess[p] EXCEPT
                                 !.pc = "b_zip",
                                 !.todo = {f \in DOMAIN disk : EndsWithJson(f)},
                                 !.snap = disk],
                          disk)
    /\ UNCHANGED <<disk, backups>>
    /\ RaceFrame

\* create_backup, lines 419-420: zf.write reads the next file, in the
\* order os.listdir gave
RaceZip ==
    /\ impl = "main"
    /\ \E p \in DOMAIN sess :
         /\ sess[p].pc = "b_zip"
         /\ \E f \in sess[p].todo :
              sess' = Moved(p, [sess[p] EXCEPT
                                   !.zipped = Put(@, f, disk[f]),
                                   !.todo = @ \ {f},
                                   !.pc = IF sess[p].todo = {f}
                                          THEN "b_save" ELSE "b_zip"],
                            disk)
    /\ UNCHANGED <<disk, backups>>
    /\ RaceFrame

\* create_backup, lines 424-426
RaceSave ==
    /\ impl = "main"
    /\ \E p \in DOMAIN sess :
         /\ sess[p].pc = "b_save"
         /\ backups' = Put(backups, SecondOf(clock),
                           [files |-> sess[p].zipped,
                            taken |-> Some(sess[p].snap)])
         /\ sess' = Moved(p, [sess[p] EXCEPT !.pc = "b_state"], disk)
    /\ UNCHANGED disk
    /\ RaceFrame

\* create_backup, lines 428-430
RaceBackupState ==
    /\ impl = "main"
    /\ \E p \in DOMAIN sess :
         /\ sess[p].pc = "b_state"
         /\ disk' = Put(disk, STATE_FILE,
                        Merge(ReadOr(disk, STATE_FILE, <<>>),
                              [last_backup |-> Some(MinuteOf(clock))]))
         /\ sess' = Moved(p, [sess[p] EXCEPT !.pc = "b_log"], disk')
    /\ UNCHANGED backups
    /\ RaceFrame

\* create_backup, lines 432-433
RaceBackupLog ==
    /\ impl = "main"
    /\ \E p \in DOMAIN sess :
         /\ sess[p].pc = "b_log"
         /\ disk' = log_event(disk, "backup_created",
                              [label |-> SecondOf(clock)], clock, TRUE)
         /\ sess' = Moved(p, [sess[p] EXCEPT !.pc = "done", !.result = "ok"],
                          disk')
    /\ UNCHANGED backups
    /\ RaceFrame

RaceNext ==
    \/ RaceCheck
    \/ RaceRead
    \/ RaceWrite
    \/ RaceGroupRead
    \/ RaceMech
    \/ RaceRenew
    \/ RaceGroupState
    \/ RaceGroupLog
    \/ RaceLog
    \/ RaceAssign
    \/ RaceList
    \/ RaceZip
    \/ RaceSave
    \/ RaceBackupState
    \/ RaceBackupLog

SpecRace == RaceInit /\ [][RaceNext]_vars

(***************************************************************************)
(* main.py restore_backup, lines 459-463, writing one entry of the archive *)
(* over the document of the same name: io.data is the document in the      *)
(* archive, io.old the document in DATA_DIR when the restore begins.       *)
(***************************************************************************)
RestoreInit ==
    /\ WriteInit
    /\ impl = "main"

\* line 462: open(dest, "wb") makes the document itself empty
RestoreOpen ==
    /\ io.pc = "idle"
    /\ io.writes < MaxWrites
    /\ \E data \in Docs :
         io' = [io EXCEPT !.file = <<>>, !.pc = "dump", !.data = data,
                          !.old = Committed, !.outcome = "running",
                          !.seen = None, !.writes = @ + 1]
    /\ IoFrame

\* line 463: dst.write(src.read()), the next byte reaching the file
RestoreCopy ==
    /\ io.pc = "dump"
    /\ Len(io.file) < Len(Dump(io.data))
    /\ io' = [io EXCEPT !.file = Append(io.file, Dump(io.data)[Len(io.file) + 1])]
    /\ IoFrame

\* lines 462-463: every byte is written, the with block closes dst
RestoreClose ==
    /\ io.pc = "dump"
    /\ Len(io.file) = Len(Dump(io.data))
    /\ io' = [io EXCEPT !.pc = "idle", !.outcome = "done"]
    /\ IoFrame

\* lines 466-467: an exception in the copy, caught by restore_backup
RestoreRaise ==
    /\ io.pc = "dump"
    /\ io' = [io EXCEPT !.pc = "idle", !.outcome = "raised"]
    /\ IoFrame

\* the process ends during the copy
RestoreCrash ==
    /\ io.pc = "dump"
    /\ io' = [io EXCEPT !.pc = "idle", !.outcome = "crashed"]
    /\ IoFrame

RestoreNext ==
    \/ RestoreOpen
    \/ RestoreCopy
    \/ RestoreClose
    \/ RestoreRaise
    \/ RestoreCrash
    \/ ReadDoc

SpecRestore == RestoreInit /\ [][RestoreNext]_vars

(***************************************************************************)
(* Reading a group document.                                               *)
(***************************************************************************)
\* the members of all groups of a document, group after group
RECURSIVE Flatten(_, _)
Flatten(groups, labels) ==
    IF labels = <<>> THEN <<>>
    ELSE groups[Head(labels)] \o Flatten(groups, Tail(labels))

MechLabels  == <<GA, GB>>
RenewLabels == <<GA, GB, GC>>

\* a group member without the fields the grouping added
Bare(m, im) ==
    IF im = "main"
    THEN [name |-> m.name, index |-> m.index, registered_at |-> m.registered_at]
    ELSE [name |-> m.name, index |-> m.index, date |-> m.date]

\* how often record s occurs in the list members
Occurrences(s, members, im) ==
    Cardinality({i \in DOMAIN members : Bare(members[i], im) = s})

\* every student of the list is in exactly one group and nobody else is
IsPartitionOf(groups, labels, students, im) ==
    LET members == Flatten(groups, labels)
    IN  /\ \A i \in DOMAIN students : Occurrences(students[i], members, im) = 1
        /\ \A j \in DOMAIN members :
             \E i \in DOMAIN students : Bare(members[j], im) = students[i]
        /\ Len(members) = Len(students)

GroupSizes(groups, labels) == {Len(groups[labels[i]]) : i \in DOMAIN labels}

RECURSIVE SumSizes(_, _)
SumSizes(groups, labels) ==
    IF labels = <<>> THEN 0
    ELSE Len(groups[Head(labels)]) + SumSizes(groups, Tail(labels))

\* the sizes add up to n and no two differ by more than one
IsBalanced(groups, labels, n) ==
    /\ SumSizes(groups, labels) = n
    /\ \A a, b \in GroupSizes(groups, labels) : a - b <= 1

\* C1: after a partition run over a list of at least threshold students,
\* each lab's group set holds every student of the list exactly once and
\* no record that is not in the list.
C1_EveryStudentInExactlyOneGroup ==
    /\ (pGroups.call = "mech" /\ pGroups.ok) =>
          IsPartitionOf(pGroups.groups, MechLabels, pStudents, impl)
    /\ (pGroups.call = "renew" /\ pGroups.ok) =>
          IsPartitionOf(pGroups.groups, RenewLabels, pStudents, impl)
    /\ (pGroups.call = "assign_groups" /\ pGroups.ok) =>
          /\ IsPartitionOf(pGroups.mech, MechLabels, pStudents, impl)
          /\ IsPartitionOf(pGroups.renew, RenewLabels, pStudents, impl)

C1_Witness ==
    /\ pGroups.call = "renew"
    /\ pGroups.ok
    /\ Len(pStudents) = 5
    /\ Len(pGroups.groups[GA]) = 2
    /\ Len(pGroups.groups[GC]) = 1

\* C2: for every N of at least the threshold and both group counts, the
\* group sizes of a partition run sum to N and differ by at most 1.
C2_SizesSumAndBalance ==
    /\ (pGroups.call = "mech" /\ pGroups.ok) =>
          IsBalanced(pGroups.groups, MechLabels, Len(pStudents))
    /\ (pGroups.call = "renew" /\ pGroups.ok) =>
          IsBalanced(pGroups.groups, RenewLabels, Len(pStudents))
    /\ (pGroups.call = "assign_groups" /\ pGroups.ok) =>
          /\ IsBalanced(pGroups.mech, MechLabels, Len(pStudents))
          /\ IsBalanced(pGroups.renew, RenewLabels, Len(pStudents))

C2_Witness ==
    /\ pGroups.call = "assign_groups"
    /\ pGroups.ok
    /\ Len(pStudents) = 7
    /\ Len(pGroups.renew[GA]) = 3
    /\ Len(pGroups.renew[GC]) = 2
    /\ Len(pGroups.mech[GB]) = 3

(***************************************************************************)
(* Reading the store.                                                      *)
(***************************************************************************)
\* the threshold of the program that runs
Threshold == IF impl = "main" THEN MIN_STUDENTS ELSE MIN_STUDENTS1

\* the group documents of the two labs
MechDoc  == disk[IF impl = "main" THEN MECH_FILE ELSE MECHTRONICS_GROUPS_FILE]
RenewDoc == disk[IF impl = "main" THEN RENEW_FILE ELSE RENEWABLE_GROUPS_FILE]

IndexSet(members) == {members[i].index : i \in DOMAIN members}
LowerNames(members) == {Lower(members[i].name) : i \in DOMAIN members}

\* the index of a form trimmed and in capitals; the name of a form trimmed,
\* its inner blanks collapsed
NormIndex(raw) == Upper(Strip(raw))
NormName(raw)  == JoinSplit(Strip(raw))

\* the step handles one request
Request == steps' = steps + 1

\* C3: in every reachable state no two records of the student list have
\* the same index.
C3_NoTwoRecordsShareAnIndex ==
    \A i, j \in DOMAIN Students :
        i # j => Students[i].index # Students[j].index

\* C4: in every reachable state no two records of the student list have
\* names that are equal when compared without regard to case.
C4_NoTwoRecordsShareAName ==
    \A i, j \in DOMAIN Students :
        i # j => Lower(Students[i].name) # Lower(Students[j].name)

\* C5: a write that is interrupted before the rename leaves the document
\* committed before it readable and unchanged, and whoever reads the file
\* gets the whole old document or the whole new one.
C5_PutIsAtomic ==
    /\ io.outcome \in {"raised", "crashed"} => Parse(io.file) = Some(io.old)
    /\ io.seen # None => io.seen[1] \in {Some(io.old), Some(io.data)}

\* C6 as claimed: after a restore of an archive that create_backup made,
\* every document of the store, the activity log included, has the content
\* it had just before that create_backup was called.
C6_RoundTripIdentical ==
    (last.op = "restore" /\ last.result = "ok" /\ last.zip.taken # None) =>
        disk = last.zip.taken[1]

\* C6 amended: after a successful restore of an archive that create_backup
\* made, the student list, both group sets and the application state have
\* the content they had just before that create_backup was called, and the
\* activity log has its content of then followed by the backup_restored
\* entry when restore_backup could log it (of which the most recent LOG_CAP
\* entries are kept).
C6_RoundTripUpToLog ==
    (last.op = "restore" /\ last.result = "ok" /\ last.zip.taken # None) =>
        LET pre == last.zip.taken[1]
            restored == [event |-> "backup_restored",
                         detail |-> [files |-> DOMAIN last.zip.files],
                         timestamp |-> SecondOf(clock)]
        IN  /\ DOMAIN pre \subseteq DOMAIN disk
            /\ \A f \in DOMAIN pre \ {LOG_FILE} : disk[f] = pre[f]
            /\ disk[LOG_FILE] =
                  IF last.logged
                  THEN LastN(Append(pre[LOG_FILE], restored), LOG_CAP)
                  ELSE pre[LOG_FILE]

C6_Witness ==
    /\ last.op = "restore"
    /\ last.result = "ok"
    /\ last.logged
    /\ last.zip.taken # None
    /\ Len(Students) >= MIN_STUDENTS
    /\ Students = last.zip.taken[1][STUDENTS_FILE]
    /\ disk[LOG_FILE] # last.zip.taken[1][LOG_FILE]

\* C7: a registration whose index, trimmed and in capitals, is the index of
\* a stored student is rejected, and the student list is as long after it
\* as before.
C7_DuplicateIndexRejected ==
    [][(/\ Request
        /\ last'.op = "register"
        /\ NormIndex(last'.index) \in IndexSet(Students))
       => /\ last'.result \in {"duplicate", "invalid"}
          /\ Len(Students') = Len(Students)]_vars

C7_Witness ==
    /\ last.op = "register"
    /\ last.result = "duplicate"
    /\ last.index # NormIndex(last.index)
    /\ NormIndex(last.index) \in IndexSet(Students)
    /\ Lower(NormName(last.name)) \notin LowerNames(Students)

\* C8: a registration whose name is, without regard to case, the name of a
\* stored student is rejected, and no document of the store is changed.
C8_DuplicateNameRejected ==
    [][(/\ Request
        /\ last'.op = "register"
        /\ Lower(NormName(last'.name)) \in LowerNames(Students))
       => /\ last'.result \in {"duplicate", "invalid"}
          /\ disk' = disk]_vars

\* C9: when the partition run of a registration, a removal or a manual
\* regroup does not succeed, the group sets of both labs are left as they
\* were.
C9_FailedRunLeavesGroupSets ==
    [][(/\ Request
        /\ last'.op \in {"register", "remove", "regroup"}
        /\ ~last'.grouped)
       => /\ MechDoc' = MechDoc
          /\ RenewDoc' = RenewDoc]_vars

\* C10: after a successful registration or removal that leaves at least
\* threshold students, the indices in each lab's group set are the indices
\* of the student list.
C10_GroupSetsCoverStudents ==
    (/\ last.op \in {"register", "remove"}
     /\ last.result = "ok"
     /\ Len(Students) >= Threshold)
    => /\ IndexSet(Flatten(MechDoc, MechLabels)) = IndexSet(Students)
       /\ IndexSet(Flatten(RenewDoc, RenewLabels)) = IndexSet(Students)

C10_Witness ==
    /\ impl = "main1"
    /\ last.op = "remove"
    /\ last.result = "ok"
    /\ Len(Students) = MIN_STUDENTS1
    /\ IndexOf(1) \notin IndexSet(Students)
    /\ IndexOf(1) \notin IndexSet(Flatten(MechDoc, MechLabels))

\* the sizes of the groups, in the order of the labels
SizesOf(groups, labels) == [i \in DOMAIN labels |-> Len(groups[labels[i]])]

\* base + 1 for the first n mod K labels, base for the others
SizesInLabelOrder(groups, labels, n) ==
    LET K == Len(labels)
    IN  \A i \in DOMAIN labels :
            Len(groups[labels[i]]) = (n \div K) + (IF i <= n % K THEN 1 ELSE 0)

\* the group documents of the harness, whichever function was called
PartMech  == IF pGroups.call = "mech" THEN pGroups.groups ELSE pGroups.mech
PartRenew == IF pGroups.call = "renew" THEN pGroups.groups ELSE pGroups.renew
PartHasMech  == pGroups.call \in {"mech", "assign_groups"} /\ pGroups.ok
PartHasRenew == pGroups.call \in {"renew", "assign_groups"} /\ pGroups.ok

\* C11: after a partition run over N students the first N mod K groups in
\* label order hold N div K + 1 members and the others N div K; six
\* students give (3,3) and (2,2,2), seven give (4,3) and (3,2,2).
C11_RemainderToFirstGroups ==
    /\ PartHasMech =>
          /\ SizesInLabelOrder(PartMech, MechLabels, Len(pStudents))
          /\ Len(pStudents) = 6 => SizesOf(PartMech, MechLabels) = <<3, 3>>
          /\ Len(pStudents) = 7 => SizesOf(PartMech, MechLabels) = <<4, 3>>
    /\ PartHasRenew =>
          /\ SizesInLabelOrder(PartRenew, RenewLabels, Len(pStudents))
          /\ Len(pStudents) = 6 => SizesOf(PartRenew, RenewLabels) = <<2, 2, 2>>
          /\ Len(pStudents) = 7 => SizesOf(PartRenew, RenewLabels) = <<3, 2, 2>>

C11_Witness ==
    /\ impl = "main"
    /\ pGroups.call = "renew"
    /\ pGroups.ok
    /\ Len(pStudents) = 7
    /\ SizesOf(pGroups.groups, RenewLabels) = <<3, 2, 2>>

\* the documents of main.py's DATA_DIR
Recognized == {STUDENTS_FILE, MECH_FILE, RENEW_FILE, STATE_FILE, LOG_FILE}

\* C12: a restore from an archive none of whose entries is a document of the
\* store fails and leaves every document as the backup taken just before it
\* left them.
C12_UnrecognizedArchiveRejected ==
    [][(/\ Request
        /\ last'.op = "restore"
        /\ DOMAIN last'.zip.files \cap Recognized = {})
       => /\ last'.result = "failed"
          /\ \E lg \in BOOLEAN :
                disk' = create_backup(disk, backups, clock', lg).disk]_vars

\* C13: a full clear, a restore of an upload and a restore of a server
\* backup each leave in the backup directory, under the label of their
\* moment, an archive of the documents as they were before the action.
C13_BackupPrecedesDestruction ==
    [][(/\ Request
        /\ last'.op \in {"clear", "restore"})
       => /\ SecondOf(clock') \in DOMAIN backups'
          /\ backups'[SecondOf(clock')].files = ArchiveFiles(disk)]_vars

C13_Witness ==
    /\ last.op = "clear"
    /\ Students = <<>>
    /\ \E l \in DOMAIN backups :
          Len(backups[l].files[STUDENTS_FILE]) >= MIN_STUDENTS

\* C14: a restore of one document that is interrupted leaves the file with
\* the whole document it held before the restore or the whole document of
\* the archive.
C14_RestoreIsAtomic ==
    io.outcome \in {"raised", "crashed"} =>
        Parse(io.file) \in {Some(io.old), Some(io.data)}

\* C15: a register, remove, regroup, backup, clear or restore request whose
\* log_event calls fail returns what it returns, and leaves the documents
\* other than the log and the backups as it leaves them, when they succeed.
C15_LogFailureNeverFailsCaller ==
    last.op # "init" => last.quiet = last.loud

C15_Witness ==
    /\ last.op = "register"
    /\ last.quiet.result = <<"ok", TRUE>>
    /\ ReadOr(disk, LOG_FILE, <<>>) = <<>>
    /\ Len(Students) = MIN_STUDENTS

\* C16: a log_event call that writes the log leaves it with at most 2000
\* entries, the last of them the new entry and those before it the latest
\* entries of the log as it was, in their order and unaltered.
C16_LogIsLatestEntriesCapped ==
    (last.op = "log_event" /\ last.logged) =>
        LET log  == disk[LOG_FILE]
            kept == Len(log) - 1
            old  == last.before
        IN  /\ Len(log) <= LOG_CAP
            /\ Len(log) = IF Len(old) + 1 > LOG_CAP THEN LOG_CAP ELSE Len(old) + 1
            /\ log[Len(log)].event = last.event
            /\ log[Len(log)].detail = last.detail
            /\ \A i \in 1..kept : log[i] = old[Len(old) - kept + i]

C16_Witness ==
    /\ last.op = "log_event"
    /\ last.logged
    /\ Len(last.before) = LOG_CAP
    /\ Len(disk[LOG_FILE]) = LOG_CAP
    /\ disk[LOG_FILE][1].detail.n = 2

\* the members of a lab's group set
Members(groups, labels) ==
    {Flatten(groups, labels)[i] : i \in DOMAIN Flatten(groups, labels)}

\* C17: a request handled while the student list is, before and after it,
\* shorter than the threshold puts no member into a group set.
C17_NoMembersBelowThreshold ==
    [][(/\ Request
        /\ Len(Students) < Threshold
        /\ Len(Students') < Threshold)
       => /\ Members(MechDoc', MechLabels) \subseteq Members(MechDoc, MechLabels)
          /\ Members(RenewDoc', RenewLabels) \subseteq
                Members(RenewDoc, RenewLabels)]_vars

MaxJoint == 4   \* longest list whose runs of main.py are all paired up

\* who is in which group of a lab, in label order
Assignment(groups, labels) ==
    [i \in DOMAIN labels |-> IndexSet(groups[labels[i]])]

\* every pair (assignment of the 2-group lab, assignment of the 3-group
\* lab) one partition run over students can leave: main.py run_grouping
\* draws a sample in each builder, main1.py assign_groups draws one
RunOutcomes(students, im) ==
    IF im = "main"
    THEN {<<Assignment(_build_mech_groups(students, pm), MechLabels),
            Assignment(_build_renew_groups(students, pr), RenewLabels)>> :
            pm \in Perms(Len(students)), pr \in Perms(Len(students))}
    ELSE {<<Assignment(AssignDocs(students, p).mech, MechLabels),
            Assignment(AssignDocs(students, p).renew, RenewLabels)>> :
            p \in Perms(Len(students))}

\* the list lengths whose runs are paired up
JointSizes(im) ==
    IF im = "main" THEN MIN_STUDENTS..MaxJoint ELSE MIN_STUDENTS1..MaxN

Outcomes ==
    [im \in {"main", "main1"} |->
        [n \in JointSizes(im) |-> RunOutcomes(Roster(n, im), im)]]

\* C18: the assignment a partition run gave the 2-group lab occurs, in some
\* run over the same list, together with each assignment a run can give
\* the 3-group lab.
C18_LabsIndependent ==
    (PartHasMech /\ Len(pStudents) \in JointSizes(impl)) =>
        LET out == Outcomes[impl][Len(pStudents)]
            a   == Assignment(PartMech, MechLabels)
        IN  \A o \in out : <<a, o[2]>> \in out

\* every record of groups is a student of the list with the label of its
\* group, the name lab and empty marks attached
RecordsCarry(groups, labels, lab) ==
    \A i \in DOMAIN labels :
        \A k \in DOMAIN groups[labels[i]] :
            LET m == groups[labels[i]][k]
            IN  /\ {"group", "lab", "marks"} \subseteq DOMAIN m
                /\ m.group = labels[i]
                /\ m.lab = lab
                /\ m.marks = ""
                /\ \E j \in DOMAIN pStudents : Bare(m, impl) = pStudents[j]

\* C19: every record a partition run puts into a group set is a student's
\* record with the label of its group, the name of the lab and empty marks.
C19_RecordsCarryLabelLabAndEmptyMarks ==
    /\ PartHasMech  => RecordsCarry(PartMech, MechLabels, MECH_LAB)
    /\ PartHasRenew => RecordsCarry(PartRenew, RenewLabels, RENEW_LAB)

\* the application state document
StateDoc == disk[IF impl = "main" THEN STATE_FILE ELSE APP_STATE_FILE]

\* C20: every Create Backup request succeeds and leaves, under its label,
\* an archive holding each document of the data directory with the content
\* it had when the request came; the application state then carries the
\* time of the backup, and the student list and both group sets are as
\* they were.
C20_BackupArchivesEveryDocument ==
    [][(/\ Request
        /\ last'.op = "backup")
       => /\ last'.result = "ok"
          /\ last'.label \in DOMAIN backups'
          /\ backups'[last'.label].files = ArchiveFiles(disk)
          /\ StateDoc'.last_backup # None
          /\ Students' = Students
          /\ MechDoc' = MechDoc
          /\ RenewDoc' = RenewDoc]_vars

\* C21: after a successful restore the backup_restored entry of the log
\* lists exactly the files the restore wrote, and the count reported is
\* their number.
C21_LoggedNamesAreTheFilesWritten ==
    [][(/\ Request
        /\ last'.op = "restore"
        /\ last'.result = "ok"
        /\ last'.logged)
       => LET log == disk'[LOG_FILE]
              e   == log[Len(log)]
          IN  /\ e.event = "backup_restored"
              /\ e.detail.files = last'.written
              /\ last'.written \subseteq DOMAIN disk'
              /\ last'.count = Cardinality(last'.written)]_vars

\* the second in which the backup of this name was written
CreatedAt(name) ==
    CHOOSE l \in DOMAIN backups :
        name \in {BackupPrefix \o Stamp(l) \o ZipSuffix, BackupPrefix \o Stamp(l)}

\* C22: the list of backups shown after a backup was created names every
\* backup of the directory, and of any two entries the one written in the
\* later second stands first.
C22_ListedNewestFirst ==
    last.op = "backup" =>
        /\ Len(last.listed) = Cardinality(DOMAIN backups)
        /\ \A i, j \in DOMAIN last.listed :
              i < j => CreatedAt(last.listed[i].name) > CreatedAt(last.listed[j].name)

C22_Witness ==
    /\ last.op = "backup"
    /\ Len(last.listed) = 3
    /\ CreatedAt(last.listed[1].name) = 600
    /\ CreatedAt(last.listed[2].name) = 59
    /\ CreatedAt(last.listed[3].name) = 10

\* C23: a name is accepted only if, trimmed and with every run of blanks
\* made one blank, it has two characters or more, begins with a letter and
\* holds letters, blanks, hyphens and apostrophes only; the value returned
\* for an accepted name is that form.
C23_NameAcceptedOnlyIfWellFormed ==
    (last.op = "validate_name" /\ last.ok) =>
        LET c == JoinSplit(Strip(last.raw))
        IN  /\ Len(c) >= 2
            /\ IsAlpha(c[1])
            /\ \A i \in DOMAIN c : IsAlpha(c[i]) \/ c[i] \in {" ", "-", "'"}
            /\ last.value = c

\* C24: when two registrations of two different students nobody had
\* registered have both ended with success, the student list holds both.
C24_NoRegistrationLost ==
    (/\ sess # <<>>
     /\ \A p \in DOMAIN sess :
           /\ sess[p].op = "register"
           /\ sess[p].pc = "done"
           /\ sess[p].result = "ok")
    => \A p \in DOMAIN sess :
          NormIndex(sess[p].form.index) \in IndexSet(Students)

\* C25: the archive create_backup saved holds the documents as the data
\* directory had them at one moment of the time create_backup was reading
\* them, whatever another request wrote meanwhile.
C25_BackupIsOneSnapshot ==
    \A p \in DOMAIN sess :
        (sess[p].op = "backup" /\ sess[p].pc \in {"b_state", "b_log", "done"})
        => \E h \in sess[p].history :
              backups[SecondOf(clock)].files = ArchiveFiles(h)

\* the student list after a registration that stored its record
Appended(before, after, index) ==
    /\ Len(after) = Len(before) + 1
    /\ SubSeq(after, 1, Len(before)) = before
    /\ after[Len(after)].index = index

\* the student list after the removal of the record at position i
Removed(before, after, i) ==
    after = SubSeq(before, 1, i - 1) \o SubSeq(before, i + 1, Len(before))

\* C26: a request changes the student list only when it is a successful
\* registration, which appends one record after the records there were, or
\* the removal of one student, which deletes that record and no other.
C26_OnlyRegistrationAndRemovalChange ==
    [][Request =>
        \/ Students' = Students
        \/ /\ last'.op = "register"
           /\ last'.result = "ok"
           /\ Appended(Students, Students', NormIndex(last'.index))
        \/ /\ last'.op = "remove"
           /\ Removed(Students, Students', last'.pos)]_vars

\* C26, amended: a regroup and a backup creation leave the student list as
\* it was, and so does a log append; a registration that passed its checks
\* appends its record after the records there were, unchanged and in their
\* order, and any other registration leaves the list; a removal deletes the
\* record chosen and no other; a full clear empties the list and a restore
\* that wrote the student list document replaces it by the archive's.
C26_StudentListFrame ==
    [][Request =>
        /\ last'.op \in {"regroup", "backup"} => Students' = Students
        /\ last'.op = "register" =>
              IF last'.result \in {"ok", "raised"}
              THEN Appended(Students, Students', NormIndex(last'.index))
              ELSE Students' = Students
        /\ last'.op = "remove" => Removed(Students, Students', last'.pos)
        /\ last'.op = "clear" => Students' = <<>>
        /\ last'.op = "restore" =>
              Students' = IF STUDENTS_FILE \in last'.written
                          THEN last'.zip.files[STUDENTS_FILE]
                          ELSE Students
        /\ impl = "main" =>
              \A logged \in BOOLEAN :
                  ReadOr(log_event(disk, "admin_login", <<>>, clock, logged),
                         STUDENTS_FILE, <<>>) = Students]_vars

\* a registration has added its record to a list that held others
C26_Witness ==
    /\ last.op = "register"
    /\ last.result = "ok"
    /\ Len(Students) >= 2

\* C27: a restore writes no file but the five documents of the store: the
\* files it wrote are among them, and the data directory holds no file
\* afterwards that is neither one of them nor was there before.
C27_RestoreWritesOnlyDocuments ==
    [][(Request /\ last'.op = "restore")
       => /\ last'.written \subseteq Recognized
          /\ DOMAIN disk' \subseteq DOMAIN disk \cup Recognized]_vars

\* C28: when the request after a full clear is 'Restore Selected' of the
\* backup the clear created, the student list and the two group sets are
\* afterwards what they were before the clear.
C28_ClearIsUndone ==
    [][(/\ Request
        /\ last.op = "clear"
        /\ last'.op = "restore"
        /\ \E lg \in BOOLEAN :
              disk' = restore_server(disk, backups, SecondOf(clock), clock',
                                     lg).disk)
       => \A f \in {STUDENTS_FILE, MECH_FILE, RENEW_FILE} :
             disk'[f] = backups[SecondOf(clock)].taken[1][f]]_vars

\* C29: a backup creation leaves every archive there was as it was and
\* makes the list of backups one entry longer, so that the list has as
\* many entries as backups were created.
C29_EveryBackupAddsOneArchive ==
    [][(Request /\ last'.op = "backup")
       => /\ \A l \in DOMAIN backups :
                l \in DOMAIN backups' /\ backups'[l] = backups[l]
          /\ Len(last'.listed) = Len(last'.before) + 1
          /\ Len(last'.listed) = steps']_vars

\* C30: in every reachable state the application state is a record and
\* each group set of main.py maps the labels of its lab, no others; after a
\* restore that reported success the application state it wrote is a
\* record.
C30_DocumentsWellFormed ==
    /\ ~IsList(StateDoc)
    /\ impl = "main" =>
          /\ DOMAIN disk[MECH_FILE] = {GA, GB}
          /\ DOMAIN disk[RENEW_FILE] = {GA, GB, GC}
    /\ (last.op = "restore" /\ last.result = "ok") =>
          \A f \in last.written \cap {STATE_FILE} : ~IsList(disk[f])
====
